---- MODULE Spec2Model ----
(***************************************************************************)
(* prod.bd tunnel multiplexer.                                             *)
(*                                                                         *)
(* Spec      : the edge actor TunnelDO (worker/src/tunnel-do.ts) together  *)
(*             with the agent's per-request answer (proxy.HandleRequest).  *)
(*             Every hibernation hook and every fetch is one action: the   *)
(*             actor runs each to completion; the only suspension points   *)
(*             are the await of request.arrayBuffer() and the Promise of   *)
(*             proxyHTTPRequest, which split the HTTP path in steps.       *)
(* SpecFair  : Spec with weak fairness on the 30s timer and the body read. *)
(* SpecRelay : one visitor WebSocket session through the agent: the read   *)
(*             loop of connectAndServe, its per-message workers, and the   *)
(*             WSRelay of cli/internal/proxy/wsrelay.go.                   *)
(* SpecRelayFair : SpecRelay with weak fairness on the edge's forwarding,  *)
(*             the reader, the workers and the relay's read loop.          *)
(* SpecTunnels, SpecTunnelsFair : the agent process: main, the done        *)
(*             channel and one StartTunnel retry loop per tunnel.          *)
(* SpecAgent : one connection of connectAndServe: the read loop, the       *)
(*             per-message workers, the keepalive, the shutdown watcher    *)
(*             and writeMutex.                                             *)
(* SpecAgentFair : SpecAgent with weak fairness on the reader, the second  *)
(*             worker and the holders of writeMutex.                       *)
(* SpecRegister : POST /api/register of the worker entry with              *)
(*             allocateSubdomain over the tunnels table of D1.             *)
(* SpecRegisterPorts : one /api/register call that names several ports.   *)
(* SpecVisitors : a visitor request through tunnelConfig (the 30s config   *)
(*             cache) and the plug-in middleware, beside a registration.   *)
(* SpecHeaders : the header handling of proxy.HandleRequest on the way to  *)
(*             the local server and back.                                  *)
(* SpecPipeline : the hooks Pipeline of the agent: registration,           *)
(*             activation and the hook calls of one dispatch.              *)
(* SpecStats : the Store of the stats plug-in under the calls of its      *)
(*             connection and request hooks.                               *)
(***************************************************************************)
EXTENDS Integers, Sequences, FiniteSets, TLC

\* ---------------------------------------------------------------- bounds
MaxSock == 3
MaxIds == 2
MaxFrames == 1
MaxRelayFrames == 3
MaxTunnels == 2
MaxStale == 1
MaxAgentMsgs == 2
MaxPings == 1
MaxPorts == 2
MaxCallPorts == 2
MaxRegs == 2
MaxVisits == 2
MaxTime == 1
MaxPlugins == 3
MaxHeaders == 2
MaxHooks == 2
maxLogs == 2
MaxRecords == 4
MaxOrder == 3

Subdomains == {"a", "b"}
SockIds == 1..MaxSock
Ids == 1..MaxIds

\* close codes and statuses used by the edge
CodeReplaced == 1000
CodeNormal == 1000
CodeTunnelGone == 1001
CodeError == 1011
StatusBadGateway == 502
StatusTimeout == 504

\* statuses a local server answers with: new Response(body, {status}) takes
\* 200..599 and throws a RangeError for any other
LocalStatuses == {200, 999}
\* close codes a peer closes with, and the code of an agent's ws-close
\* (0: the field is absent)
PeerCodes == {1000}
AgentCodes == {0, 1011}

\* ---------------------------------------------------------------- state
VARIABLES
    sock,            \* the hibernation runtime's sockets: readyState, attachment
    tunnels,         \* TunnelDO.tunnels         subdomain -> socket (0: absent)
    visitorSockets,  \* TunnelDO.visitorSockets  sessionId -> socket (0: absent)
    pendingRequests, \* TunnelDO.pendingRequests requestId -> entry
    reqs,            \* the visitor HTTP requests: promise, timer, captured socket
    atAgent,         \* per agent socket: the http-request and ws-open envelopes
                     \* sent on it that the agent has not finished with
    nextSock,        \* next WebSocketPair
    nextId,          \* next crypto.randomUUID()
    frames,          \* visitor / agent frames produced so far
    last,            \* the handler that ran last, with its inputs
    log,             \* the socket and table operations of that handler, in order
    relay,           \* one visitor session on its way through the agent (SpecRelay)
    tun,             \* the agent process: done, main and its StartTunnel loops
    agent,           \* one agent connection: reader, workers, keepalive, watcher
    front,           \* the Worker in front of the actor: D1 table, config cache,
                     \* /api/register calls and visitor requests in progress
    hdr,             \* one run of HandleRequest's header filtering
    pipe,            \* the agent's plug-in pipeline and one dispatch through it
    stats            \* the stats plug-in's Store

vars == <<sock, tunnels, visitorSockets, pendingRequests, reqs, atAgent,
          nextSock, nextId, frames, last, log, relay, tun, agent,
          front, hdr, pipe, stats>>

NoSock == [st |-> "none", kind |-> "none", sub |-> "none", sid |-> 0]
ClosedSock == [st |-> "closed", kind |-> "none", sub |-> "none", sid |-> 0]
NoPending == [subdomain |-> "none", owner |-> 0]
NoReq == [st |-> "none", sub |-> "none", ws |-> 0, timer |-> FALSE,
          status |-> 0, from |-> 0, nres |-> 0]

\* The edge state a handler transforms.
Cur == [sock |-> sock, tunnels |-> tunnels, visitorSockets |-> visitorSockets,
        pendingRequests |-> pendingRequests, reqs |-> reqs, atAgent |-> atAgent,
        log |-> <<>>]

Commit(e) ==
    /\ sock' = e.sock
    /\ tunnels' = e.tunnels
    /\ visitorSockets' = e.visitorSockets
    /\ pendingRequests' = e.pendingRequests
    /\ reqs' = e.reqs
    /\ atAgent' = e.atAgent
    /\ log' = e.log

Logged(e, ev) == [e EXCEPT !.log = Append(@, ev)]

\* ------------------------------------------------- runtime primitives
\* readyState === WebSocket.OPEN
IsOpen(e, k) == k # 0 /\ e.sock[k].st = "open"

\* ws.close(code) by the edge on a socket whose peer has not closed: the
\* socket is CLOSING until the peer's close arrives; a second close changes
\* nothing.
WsClose(e, k, code) ==
    LET e1 == Logged(e, <<"close", k, code>>)
    IN IF e1.sock[k].st = "open"
       THEN [e1 EXCEPT !.sock[k].st = "closing"]
       ELSE e1

\* ws.close(code) inside the close / error hook of that socket: the
\* connection is finished and the runtime drops the socket.
WsFinish(e, k, code) ==
    LET e1 == Logged(e, <<"close", k, code>>)
    IN [e1 EXCEPT !.sock[k] = ClosedSock, !.atAgent[k] = {}]

\* ws.send(msg) on an OPEN socket.  An http-request or a ws-open stays with
\* the agent until the agent has answered the request or closed the session.
WsSend(e, k, m) ==
    LET e1 == Logged(e, <<"send", k, m.type, m.id, m.n>>)
    IN IF m.type \in {"http-request", "ws-open"}
       THEN [e1 EXCEPT !.atAgent[k] = @ \cup {[type |-> m.type, id |-> m.id]}]
       ELSE e1

\* ctx.acceptWebSocket(server); server.serializeAttachment(att)
Accept(e, k, kind, sub, sid) ==
    [Logged(e, <<"accept", k, kind>>) EXCEPT
        !.sock[k] = [st |-> "open", kind |-> kind, sub |-> sub, sid |-> sid]]

TunnelsSet(e, s, k) == [Logged(e, <<"tunnels.set", s, k>>) EXCEPT !.tunnels[s] = k]
TunnelsDelete(e, s) == [Logged(e, <<"tunnels.delete", s, 0>>) EXCEPT !.tunnels[s] = 0]
VisitorsSet(e, id, k) ==
    [Logged(e, <<"visitors.set", id, k>>) EXCEPT !.visitorSockets[id] = k]
VisitorsDelete(e, id) ==
    [Logged(e, <<"visitors.delete", id, 0>>) EXCEPT !.visitorSockets[id] = 0]
PendingSet(e, id, sub) ==
    [Logged(e, <<"pending.set", id, 0>>) EXCEPT
        !.pendingRequests[id] = [subdomain |-> sub, owner |-> id]]
PendingDelete(e, id) ==
    [Logged(e, <<"pending.delete", id, 0>>) EXCEPT !.pendingRequests[id] = NoPending]

ClearTimeout(e, r) == [e EXCEPT !.reqs[r].timer = FALSE]

\* resolve(new Response(...)) of the Promise of request r: the first call
\* settles the promise, later calls change nothing.
PromiseResolve(e, r, status, from) ==
    LET e1 == Logged(e, <<"resolve", r, status>>)
    IN IF e1.reqs[r].st = "done"
       THEN [e1 EXCEPT !.reqs[r].nres = @ + 1]
       ELSE [e1 EXCEPT !.reqs[r].st = "done", !.reqs[r].status = status,
                       !.reqs[r].from = from, !.reqs[r].ws = 0,
                       !.reqs[r].nres = @ + 1]

\* ------------------------------------------------------------ handlers
\* mutant of handleTunnelUpgrade: the new socket is inserted before the old
\* one is closed and evicted
handleTunnelUpgrade_InsertFirst(e, s, k, closeThrows) ==
    LET existing == e.tunnels[s]
        e1 == TunnelsSet(Accept(e, k, "agent", s, 0), s, k)
    IN IF existing # 0
       THEN TunnelsDelete(WsClose(e1, existing, CodeReplaced), s)
       ELSE e1

\* TunnelDO.handleTunnelUpgrade.  k is the server half of the new pair.
\* closeThrows: existing.close() is not guarded; on a socket that is no
\* longer OPEN the runtime either ignores the call or throws.
handleTunnelUpgrade(e, s, k, closeThrows) ==
    LET existing == e.tunnels[s]
    IN IF existing # 0 /\ ~IsOpen(e, existing) /\ closeThrows
       THEN Logged(e, <<"throw", existing, 0>>)
       ELSE LET e1 == IF existing # 0
                      THEN TunnelsDelete(WsClose(e, existing, CodeReplaced), s)
                      ELSE e
            IN TunnelsSet(Accept(e1, k, "agent", s, 0), s, k)

\* TunnelDO.handleVisitorUpgrade
handleVisitorUpgrade(e, tunnelWs, s, sessionId, k) ==
    LET e1 == WsSend(e, tunnelWs, [type |-> "ws-open", id |-> sessionId, n |-> 0])
    IN VisitorsSet(Accept(e1, k, "visitor", s, sessionId), sessionId, k)

\* The Promise executor of TunnelDO.proxyHTTPRequest (lines 284-322): arm
\* the timeout, register the entry, send; a throwing send resolves 502.
proxyRegisterAndSend(e, reqId, s, ws) ==
    LET e1 == [e EXCEPT !.reqs[reqId].timer = TRUE, !.reqs[reqId].st = "pending"]
        e2 == PendingSet(e1, reqId, s)
    IN IF IsOpen(e2, ws)
       THEN WsSend(e2, ws, [type |-> "http-request", id |-> reqId, n |-> 0])
       ELSE PromiseResolve(ClearTimeout(PendingDelete(e2, reqId), reqId),
                           reqId, StatusBadGateway, 0)

\* TunnelDO.proxyHTTPRequest up to its first suspension point.
proxyHTTPRequest(e, reqId, s, ws, hasBody) ==
    LET e1 == [e EXCEPT !.reqs[reqId] =
                   [NoReq EXCEPT !.st = "reading", !.sub = s, !.ws = ws]]
    IN IF hasBody THEN e1 ELSE proxyRegisterAndSend(e1, reqId, s, ws)

\* mutant of timeoutFired: the timer answers 504 and leaves the entry
timeoutFired_NoDelete(e, reqId) ==
    PromiseResolve([e EXCEPT !.reqs[reqId].timer = FALSE], reqId, StatusTimeout, 0)

\* the setTimeout callback of proxyHTTPRequest
timeoutFired(e, reqId) ==
    LET e1 == [e EXCEPT !.reqs[reqId].timer = FALSE]
    IN PromiseResolve(PendingDelete(e1, reqId), reqId, StatusTimeout, 0)

\* pending.reject(err)
PendingReject(e, p) ==
    PromiseResolve(ClearTimeout(e, p.owner), p.owner, StatusBadGateway, 0)

\* new Response(body, {status}) throws for a status outside 200..599
ResponseThrows(msg) == msg.status < 200 \/ msg.status > 599

\* mutant of handleHttpResponse: the response goes to the oldest pending
\* request, whatever id it carries
handleHttpResponse_FirstPending(e, msg) ==
    LET waiting == {i \in Ids : e.pendingRequests[i] # NoPending}
    IN IF waiting = {}
       THEN e
       ELSE LET first == CHOOSE i \in waiting : \A j \in waiting : i <= j
            IN PendingDelete(
                   PromiseResolve(ClearTimeout(e, first), first, msg.status, msg.origin),
                   first)

\* mutant of handleHttpResponse: the request named by the response is
\* settled without looking its id up in the pending table
handleHttpResponse_NoLookup(e, msg) ==
    PendingDelete(
        PromiseResolve(ClearTimeout(e, msg.id), msg.id, msg.status, msg.origin),
        msg.id)

\* TunnelDO.handleTunnelMessage, case TYPE_HTTP_RESPONSE.  pending.resolve
\* clears the timeout first; when building the Response throws, the delete
\* is skipped and webSocketMessage catches the error.
handleHttpResponse(e, msg) ==
    LET p == e.pendingRequests[msg.id]
    IN IF p = NoPending
       THEN e
       ELSE LET e1 == ClearTimeout(e, p.owner)
            IN IF ResponseThrows(msg)
               THEN Logged(e1, <<"throw", msg.id, 0>>)
               ELSE PendingDelete(
                        PromiseResolve(e1, p.owner, msg.status, msg.origin),
                        msg.id)

\* TunnelDO.handleTunnelMessage, case TYPE_WS_FRAME
handleWsFrame(e, msg) ==
    LET visitor == e.visitorSockets[msg.id]
    IN IF visitor # 0 /\ IsOpen(e, visitor)
       THEN WsSend(e, visitor, [type |-> "frame", id |-> msg.id, n |-> msg.n])
       ELSE e

\* TunnelDO.handleTunnelMessage, case TYPE_WS_CLOSE
handleWsClose(e, msg) ==
    LET visitor == e.visitorSockets[msg.id]
    IN IF visitor # 0
       THEN VisitorsDelete(
                WsClose(e, visitor, IF msg.code = 0 THEN CodeNormal ELSE msg.code),
                msg.id)
       ELSE e

handleTunnelMessage(e, msg) ==
    CASE msg.type = "http-response" -> handleHttpResponse(e, msg)
      [] msg.type = "ws-frame" -> handleWsFrame(e, msg)
      [] msg.type = "ws-close" -> handleWsClose(e, msg)
      [] OTHER -> e

\* TunnelDO.webSocketMessage
webSocketMessage(e, ws, msg) ==
    LET att == e.sock[ws]
    IN IF att.kind = "visitor"
       THEN LET tunnelWs == e.tunnels[att.sub]
            IN IF tunnelWs # 0 /\ IsOpen(e, tunnelWs)
               THEN WsSend(e, tunnelWs, [type |-> "ws-frame", id |-> att.sid, n |-> msg.n])
               ELSE e
       ELSE handleTunnelMessage(e, msg)

\* mutant of RejectAll: every pending request is rejected, whatever its
\* subdomain
RECURSIVE RejectAll_Everyone(_, _, _)
RejectAll_Everyone(e, sub, i) ==
    IF i > MaxIds
    THEN e
    ELSE LET p == e.pendingRequests[i]
         IN IF p # NoPending
            THEN RejectAll_Everyone(PendingDelete(PendingReject(e, p), i), sub, i + 1)
            ELSE RejectAll_Everyone(e, sub, i + 1)

\* the loop over pendingRequests of webSocketClose / webSocketError
RECURSIVE RejectAll(_, _, _)
RejectAll(e, sub, i) ==
    IF i > MaxIds
    THEN e
    ELSE LET p == e.pendingRequests[i]
         IN IF p # NoPending /\ p.subdomain = sub
            THEN RejectAll(PendingDelete(PendingReject(e, p), i), sub, i + 1)
            ELSE RejectAll(e, sub, i + 1)

\* the loop over visitorSockets of webSocketClose
RECURSIVE CloseVisitors(_, _, _)
CloseVisitors(e, sub, i) ==
    IF i > MaxIds
    THEN e
    ELSE LET visitor == e.visitorSockets[i]
         IN IF visitor # 0 /\ e.sock[visitor].sub = sub
            THEN CloseVisitors(
                     VisitorsDelete(WsClose(e, visitor, CodeTunnelGone), i), sub, i + 1)
            ELSE CloseVisitors(e, sub, i + 1)

\* TunnelDO.webSocketClose
webSocketClose(e, ws, code) ==
    LET e1 == WsFinish(e, ws, code)
        att == e.sock[ws]
    IN IF att.kind = "visitor"
       THEN LET e2 == VisitorsDelete(e1, att.sid)
                tunnelWs == e2.tunnels[att.sub]
            IN IF tunnelWs # 0 /\ IsOpen(e2, tunnelWs)
               THEN WsSend(e2, tunnelWs, [type |-> "ws-close", id |-> att.sid, n |-> code])
               ELSE e2
       ELSE CloseVisitors(RejectAll(TunnelsDelete(e1, att.sub), att.sub, 1),
                          att.sub, 1)

\* mutant of webSocketError: the pending requests are not rejected
webSocketError_NoReject(e, ws) ==
    LET att == e.sock[ws]
    IN IF att.kind = "visitor"
       THEN WsFinish(VisitorsDelete(e, att.sid), ws, CodeError)
       ELSE WsFinish(TunnelsDelete(e, att.sub), ws, CodeError)

\* TunnelDO.webSocketError
webSocketError(e, ws) ==
    LET att == e.sock[ws]
    IN IF att.kind = "visitor"
       THEN WsFinish(VisitorsDelete(e, att.sid), ws, CodeError)
       ELSE WsFinish(RejectAll(TunnelsDelete(e, att.sub), att.sub, 1),
                     ws, CodeError)

\* proxy.HandleRequest: the response carries the id of the request it answers
\* (origin stands for the content the local server produced for that request).
\* failure: what went wrong on the way (none, decode of the body, build of
\* the request, connect to the local server, read of its response); every
\* failure is answered 502.
HandleRequest(req, failure, status) ==
    [type |-> "http-response", id |-> req.id, origin |-> req.id,
     status |-> IF failure = "none" THEN status ELSE StatusBadGateway,
     n |-> 0, code |-> 0]

\* ctx.getWebSockets(): the sockets whose connection is not finished
Connected(k) == sock[k].st \in {"open", "closing"}

\* The constructor's restore loop over an enumeration: the OPEN sockets and
\* cs, some of the sockets the edge has closed whose peer has not answered;
\* for a subdomain with several agent sockets the one enumerated last, t[s],
\* stays in the table.
Restored(cs, t) ==
    LET enum == {k \in SockIds : sock[k].st = "open"} \cup cs
    IN [tunnels |-> t,
        visitorSockets |->
            [id \in Ids |->
                IF \E k \in enum : sock[k].kind = "visitor" /\ sock[k].sid = id
                THEN CHOOSE k \in enum : sock[k].kind = "visitor" /\ sock[k].sid = id
                ELSE 0],
        enum |-> enum]

RestoreChoices(cs) ==
    LET enum == {k \in SockIds : sock[k].st = "open"} \cup cs
        cand(s) == {k \in enum : sock[k].kind = "agent" /\ sock[k].sub = s}
    IN {t \in [Subdomains -> SockIds \cup {0}] :
            \A s \in Subdomains :
                IF cand(s) = {} THEN t[s] = 0 ELSE t[s] \in cand(s)}

\* ------------------------------------------------------------- actions
\* toEdge:   frames the visitor has written on its socket, not yet handled
\* tunnelQ:  ws-frame envelopes on the agent socket, edge to agent
\* workers:  the envelopes held by the per-message workers of the reader
\* sessions: WSRelay.sessions
\* local:    the frames written on the local WebSocket, in order
\* localQ:   frames the local server has written, not yet read by readLoop
\* hand:     the frame readLoop has read and not yet written (0: none)
\* agentQ:   ws-frame envelopes on the agent socket, agent to edge
\* visitor:  the frames delivered to the visitor, in order
\* vclosed:  the visitor has closed its socket
\* conn:     the local WebSocket: none, open, peerClosed (the local server
\*           closed it), closed (the agent closed it)
\* loop:     the session's readLoop: none, read, defer (returning), done
\* opened:   HandleOpen dialled the local server and stored the session
\* closeSent: the ws-close envelopes the agent has written for the session
\* removedByClose: HandleClose found the session and removed it
\* closeRan: a HandleClose of the session has returned
\* tunnelUp: the agent socket takes writes
NoRelay == [vsent |-> 0, toEdge |-> <<>>, tunnelQ |-> <<>>, workers |-> {},
            sessions |-> {}, local |-> <<>>, echoed |-> 0, localQ |-> <<>>,
            hand |-> 0, agentQ |-> <<>>, visitor |-> <<>>,
            vclosed |-> FALSE, conn |-> "none", loop |-> "none",
            opened |-> FALSE, closeSent |-> 0, removedByClose |-> FALSE,
            closeRan |-> FALSE, tunnelUp |-> TRUE]

\* One connection of connectAndServe.
\* done:    the done channel is closed
\* conn:    the agent socket c: open, closed
\* mutex:   writeMutex: free, or the activity that holds it
\* writing: the activities inside a write call on c
\* reader:  the read loop: read, exit
\* watcher: wait (blocked on done), write (in c.WriteMessage), close (before
\*          c.Close), exit
\* keep:    the keepalive: idle, lock (waiting for writeMutex), write, exit
\* inQ:     messages the edge has sent, not yet read
\* sent:    how many messages the edge has sent; message i carries id i
\* pings:   keepalive ticks so far
\* w:       the worker of message i.  pc: none, handle, lock, write, done;
\*          type: the envelope's type; failure: what HandleRequest met;
\*          local: it made a local HTTP request; emitted: the writeJSON calls
\*          it made; resp: the response it built
\* wire:    the messages written on c, in order
NoResp == [type |-> "none", id |-> 0, origin |-> 0, status |-> 0, n |-> 0, code |-> 0]
NoWorker == [pc |-> "none", type |-> "none", failure |-> "none", local |-> FALSE,
             emitted |-> 0, resp |-> NoResp]
AgentMsgs == 1..MaxAgentMsgs
\* the activities that write on c
Nobody == <<"free", 0>>
Worker(i) == <<"worker", i>>
Keepalive == <<"keepalive", 0>>
Watcher == <<"watcher", 0>>
NoAgent == [done |-> FALSE, conn |-> "open", mutex |-> Nobody, writing |-> {},
            reader |-> "read", watcher |-> "wait", keep |-> "idle",
            inQ |-> <<>>, sent |-> 0, pings |-> 0,
            w |-> [i \in AgentMsgs |-> NoWorker], wire |-> <<>>]

\* ------------------------------------------------- the Worker's state
\* A subdomain is a sequence of characters.  generateSubdomain draws from
\* 36^length strings; three of them per length are followed here: one that
\* is free and inoffensive, one that is free and contains a blocked word,
\* and one that another client's tunnel already holds.
NameClean == <<"q", "7", "k", "2">>
NameBlocked == <<"a", "s", "s", "1">>
NameTaken == <<"z", "z", "z", "9">>
Pad(b, len) == b \o [i \in 1..(len - Len(b)) |-> "0"]
ClientId == "c1"
OtherClient == "c0"
Ports == 1..MaxPorts

\* a tunnel config after JSON.parse: the keys the middlewares read
CfgOpen == [auth |-> "", allowIps |-> {}]
CfgAuth == [auth |-> "user:pass", allowIps |-> {}]
\* body.config is absent; the table has no row for the subdomain
NoConfig == [auth |-> "absent", allowIps |-> {}]
NoRow == [auth |-> "norow", allowIps |-> {}]

\* the rows of tunnels that exist before the client registers anything:
\* another client's tunnels on a name of every length
TakenRows ==
    {[subdomain |-> Pad(NameTaken, len), client_id |-> OtherClient,
      port |-> len, config |-> CfgOpen] : len \in 4..10}

\* One /api/register call.
\* pc:       none, select (before the SELECT of the client's rows), update,
\*           invalidate, gen (top of allocateSubdomain's loop), insert, done
\* ports:    body.ports
\* rest:     the ports the for loop has not reached yet
\* port:     the port the for loop is at
\* results:  results, the port -> subdomain pairs of the answer
\* config:   body.config: NoConfig, or the config
\* existing: existingMap, read by the SELECT
\* retries, len: allocateSubdomain's retries and subdomainLength
\* cand:     the candidate that passed the SELECT and is being inserted
\* tried:    the lengths of the candidates generated so far
\* status, sub: the answer
\* inserted: the allocateSubdomain call of the port inserted a row
NoReg == [pc |-> "none", ports |-> <<>>, rest |-> <<>>, port |-> 0,
          config |-> NoConfig, existing |-> {}, results |-> {},
          retries |-> 0, len |-> 0, cand |-> <<>>, tried |-> <<>>,
          status |-> 0, sub |-> <<>>, inserted |-> FALSE]

\* One visitor request.
\* pc:       none, select (loadConfig before its SELECT), set (the SELECT
\*           has answered, before configCache.set), mw (config loaded, before
\*           the plug-in middlewares), done
\* header:   the Authorization header: none, bearer, basic-wrong, basic-right
\* config:   the config loadConfig returned
\* status:   the status the visitor receives
\* forwarded: the wildcard handler ran stub.fetch
\* stored:   the config the table held for the subdomain when the request
\*           started (NoRow: none)
\* quiet:    no register call was in progress when the request started and
\*           none has started since
NoVisit == [pc |-> "none", sub |-> <<>>, header |-> "none", config |-> CfgOpen,
            status |-> 0, forwarded |-> FALSE, stored |-> NoRow, quiet |-> FALSE]

Regs == 1..MaxRegs
Visits == 1..MaxVisits

\* db: the rows of tunnels; cache: configCache; now: Date.now() in units of
\* CACHE_TTL_MS / TTL
NoFront == [db |-> TakenRows, cache |-> {}, now |-> 0,
            regs |-> [r \in Regs |-> NoReg], visits |-> [v \in Visits |-> NoVisit]]

\* ------------------------------------------- header filtering's state
\* pc:   idle, range (in the loop over req.Headers), do (request built),
\*       done
\* in:   req.Headers: a map, as a set of [key, vals]
\* todo: the keys the range loop has not visited
\* out:  httpReq.Header
\* resp: resp.Header, as the transport parsed it
\* ret:  the Headers of the TunnelResponse
NoHdr == [pc |-> "idle", in |-> {}, todo |-> {}, out |-> {}, resp |-> {}, ret |-> {}]

\* ----------------------------------------------------- pipeline's state
\* pc:      setup (RegisterPlugin calls), active (after Activate), before,
\*          proxy, after, done: the steps of one dispatch
\* plugins, reqHooks, connHooks: the Pipeline's fields
\* i:       the index of the loop in progress
\* req, resp: the request and the response as rewritten so far: the hooks
\*          that have rewritten them, in order
\* trace:   the hook calls of the dispatch, in order
NoPipe == [pc |-> "setup", plugins |-> <<>>, reqHooks |-> <<>>, connHooks |-> <<>>,
           i |-> 0, req |-> <<>>, resp |-> <<>>, trace |-> <<>>]

\* The stats plug-in's Store.
\* tunnels:     subdomain -> *TunnelStats (in: the map has the key)
\* tunnelOrder: the insertion-order slice
\* logs:        the request log
\* nextID:      the ID given to the last entry
\* reconnect:   some RecordConnect call named a subdomain that was in the map
NoTunnelStats == [in |-> FALSE, TotalRequests |-> 0, ErrorCount |-> 0]
NoStats == [tunnels |-> [s \in Subdomains |-> NoTunnelStats], tunnelOrder |-> <<>>,
            logs |-> <<>>, nextID |-> 0, reconnect |-> FALSE]

\* One StartTunnel call.
\* pc:      check (top of the retry loop), dial (in connectAndServe, before
\*          Dial returns), serve (the read loop), backoff, returned
\* conn:    the agent socket c: none, open, closed (the watcher closed it),
\*          broken (the connection failed or the edge closed it)
\* watcher: the shutdown goroutine of the current connection: none, wait, exit
\* stale:   watchers of earlier connections, still blocked on done
\* slept:   no failure since the last backoff
\* chk:     what the last check at the top of the loop read from done
NoTunnel == [pc |-> "check", conn |-> "none", watcher |-> "none", stale |-> 0,
             slept |-> TRUE, chk |-> FALSE]
Tunnels == 1..MaxTunnels
NoTun == [done |-> FALSE, main |-> "wait", t |-> [s \in Tunnels |-> NoTunnel]]

Init ==
    /\ sock = [k \in SockIds |-> NoSock]
    /\ tunnels = [s \in Subdomains |-> 0]
    /\ visitorSockets = [id \in Ids |-> 0]
    /\ pendingRequests = [id \in Ids |-> NoPending]
    /\ reqs = [id \in Ids |-> NoReq]
    /\ atAgent = [k \in SockIds |-> {}]
    /\ nextSock = 1
    /\ nextId = 1
    /\ frames = 0
    /\ last = [op |-> "init", s |-> "none", k |-> 0, id |-> 0, old |-> 0]
    /\ log = <<>>
    /\ relay = NoRelay
    /\ tun = NoTun
    /\ agent = NoAgent
    /\ front = NoFront
    /\ hdr = NoHdr
    /\ pipe = NoPipe
    /\ stats = NoStats

\* op: the handler; s, k, id: its subdomain, socket and request or session
\* id; old: the socket the table held for s when an agent upgrade arrived
DidUpgrade(s, k, old) ==
    last' = [op |-> "tunnelUpgrade", s |-> s, k |-> k, id |-> 0, old |-> old]
Did(op, s, k, id) == last' = [op |-> op, s |-> s, k |-> k, id |-> id, old |-> 0]

\* a routing test that only looks the subdomain up in the table
NotConnected_AbsentOnly(s) == tunnels[s] = 0

\* fetch: the 502 answer of lines 84-86
NotConnected(s) == tunnels[s] = 0 \/ sock[tunnels[s]].st # "open"

\* fetch("/_tunnel?subdomain=s", Upgrade: websocket)
FetchTunnel(s, closeThrows) ==
    /\ nextSock <= MaxSock
    /\ Commit(handleTunnelUpgrade(Cur, s, nextSock, closeThrows))
    /\ nextSock' = nextSock + 1
    /\ DidUpgrade(s, nextSock, tunnels[s])
    /\ UNCHANGED <<nextId, frames>>
    /\ UNCHANGED <<relay, tun, agent, front, hdr, pipe, stats>>

\* app.get("/_tunnel"): the answer of the route before the actor is called
\* (101: the request goes to the actor)
StatusUpgradeRequired == 426
StatusBadRequest == 400
StatusSwitching == 101
tunnelRoute(upgradeHeader, subdomain) ==
    IF upgradeHeader # "websocket"
    THEN StatusUpgradeRequired
    ELSE IF subdomain = ""
         THEN StatusBadRequest
         ELSE StatusSwitching

UpgradeHeaders == {"", "websocket", "h2c"}

\* GET /_tunnel that the route refuses
GetTunnelRefused(upgradeHeader, subdomain) ==
    /\ nextSock <= MaxSock
    /\ tunnelRoute(upgradeHeader, subdomain) # StatusSwitching
    /\ Commit(Cur)
    /\ last' = [op |-> IF tunnelRoute(upgradeHeader, subdomain) = StatusUpgradeRequired
                       THEN "upgradeRequired" ELSE "badRequest",
                s |-> "none", k |-> 0, id |-> 0, old |-> 0]
    /\ UNCHANGED <<nextSock, nextId, frames>>
    /\ UNCHANGED <<relay, tun, agent, front, hdr, pipe, stats>>

\* fetch("https://s.zone/...", Upgrade: websocket)
FetchVisitorWS(s) ==
    /\ nextSock <= MaxSock
    /\ nextId <= MaxIds
    /\ IF NotConnected(s)
       THEN /\ Commit(Cur)
            /\ Did("notConnected", s, 0, 0)
            /\ UNCHANGED <<nextSock, nextId>>
       ELSE /\ Commit(handleVisitorUpgrade(Cur, tunnels[s], s, nextId, nextSock))
            /\ Did("visitorUpgrade", s, nextSock, nextId)
            /\ nextSock' = nextSock + 1
            /\ nextId' = nextId + 1
    /\ UNCHANGED frames
    /\ UNCHANGED <<relay, tun, agent, front, hdr, pipe, stats>>

\* fetch("https://s.zone/...") with a GET/HEAD (no body) or another method
FetchHTTP(s, hasBody) ==
    /\ nextId <= MaxIds
    /\ IF NotConnected(s)
       THEN /\ Commit(Cur)
            /\ Did("notConnected", s, 0, 0)
            /\ UNCHANGED nextId
       ELSE /\ Commit(proxyHTTPRequest(Cur, nextId, s, tunnels[s], hasBody))
            /\ Did("httpRequest", s, tunnels[s], nextId)
            /\ nextId' = nextId + 1
    /\ UNCHANGED <<nextSock, frames>>
    /\ UNCHANGED <<relay, tun, agent, front, hdr, pipe, stats>>

\* request.arrayBuffer() resolves and proxyHTTPRequest resumes
BodyRead(r) ==
    /\ reqs[r].st = "reading"
    /\ Commit(proxyRegisterAndSend(Cur, r, reqs[r].sub, reqs[r].ws))
    /\ Did("bodyRead", reqs[r].sub, reqs[r].ws, r)
    /\ UNCHANGED <<nextSock, nextId, frames>>
    /\ UNCHANGED <<relay, tun, agent, front, hdr, pipe, stats>>

\* the 30s timer of request r fires
Timeout(r) ==
    /\ reqs[r].timer
    /\ Commit(timeoutFired(Cur, r))
    /\ Did("timeout", reqs[r].sub, 0, r)
    /\ UNCHANGED <<nextSock, nextId, frames>>
    /\ UNCHANGED <<relay, tun, agent, front, hdr, pipe, stats>>

\* An agent worker answers http-request id read from socket k, and the edge
\* handles the http-response (webSocketMessage on k).
AgentHttpResponse(k, id, status) ==
    /\ Connected(k) /\ sock[k].kind = "agent"
    /\ [type |-> "http-request", id |-> id] \in atAgent[k]
    /\ Commit(LET e == [Cur EXCEPT !.atAgent[k] = @ \ {[type |-> "http-request", id |-> id]}]
              IN webSocketMessage(e, k, HandleRequest([id |-> id], "none", status)))
    /\ Did("httpResponse", sock[k].sub, k, id)
    /\ UNCHANGED <<nextSock, nextId, frames>>
    /\ UNCHANGED <<relay, tun, agent, front, hdr, pipe, stats>>

\* The relay's read loop forwards a frame of the local WebSocket of session
\* id, and the edge handles the ws-frame.
AgentWsFrame(k, id) ==
    /\ Connected(k) /\ sock[k].kind = "agent"
    /\ [type |-> "ws-open", id |-> id] \in atAgent[k]
    /\ frames < MaxFrames
    /\ frames' = frames + 1
    /\ Commit(webSocketMessage(Cur, k,
           [type |-> "ws-frame", id |-> id, n |-> frames + 1, code |-> 0]))
    /\ Did("wsFrame", sock[k].sub, k, id)
    /\ UNCHANGED <<nextSock, nextId>>
    /\ UNCHANGED <<relay, tun, agent, front, hdr, pipe, stats>>

\* The relay gives up session id (dial failure or read error) and the edge
\* handles its ws-close.
AgentWsClose(k, id, code) ==
    /\ Connected(k) /\ sock[k].kind = "agent"
    /\ [type |-> "ws-open", id |-> id] \in atAgent[k]
    /\ Commit(LET e == [Cur EXCEPT !.atAgent[k] = @ \ {[type |-> "ws-open", id |-> id]}]
              IN webSocketMessage(e, k,
                     [type |-> "ws-close", id |-> id, n |-> 0, code |-> code]))
    /\ Did("wsClose", sock[k].sub, k, id)
    /\ UNCHANGED <<nextSock, nextId, frames>>
    /\ UNCHANGED <<relay, tun, agent, front, hdr, pipe, stats>>

\* a visitor sends a frame: webSocketMessage on its socket
VisitorMessage(v) ==
    /\ Connected(v) /\ sock[v].kind = "visitor"
    /\ frames < MaxFrames
    /\ frames' = frames + 1
    /\ Commit(webSocketMessage(Cur, v,
           [type |-> "frame", id |-> 0, n |-> frames + 1, code |-> 0]))
    /\ Did("visitorMessage", sock[v].sub, v, sock[v].sid)
    /\ UNCHANGED <<nextSock, nextId>>
    /\ UNCHANGED <<relay, tun, agent, front, hdr, pipe, stats>>

\* the peer of socket k closes, or answers the edge's close
CloseEvent(k, code) ==
    /\ Connected(k)
    /\ Commit(webSocketClose(Cur, k, code))
    /\ Did(IF sock[k].kind = "agent" THEN "agentClose" ELSE "visitorClose",
           sock[k].sub, k, sock[k].sid)
    /\ UNCHANGED <<nextSock, nextId, frames>>
    /\ UNCHANGED <<relay, tun, agent, front, hdr, pipe, stats>>

\* the connection of socket k breaks
ErrorEvent(k) ==
    /\ Connected(k)
    /\ Commit(webSocketError(Cur, k))
    /\ Did(IF sock[k].kind = "agent" THEN "agentError" ELSE "visitorError",
           sock[k].sub, k, sock[k].sid)
    /\ UNCHANGED <<nextSock, nextId, frames>>
    /\ UNCHANGED <<relay, tun, agent, front, hdr, pipe, stats>>

\* The actor is evicted while idle and constructed again: the tables are
\* rebuilt from the attachments, pendingRequests starts empty.
ColdStart(cs, t) ==
    /\ \A r \in Ids : reqs[r].st \notin {"reading", "pending"}
    /\ tunnels' = Restored(cs, t).tunnels
    /\ visitorSockets' = Restored(cs, t).visitorSockets
    /\ pendingRequests' = [id \in Ids |-> NoPending]
    /\ log' = <<>>
    /\ Did("coldStart", "none", 0, 0)
    /\ UNCHANGED <<sock, reqs, atAgent, nextSock, nextId, frames>>
    /\ UNCHANGED <<relay, tun, agent, front, hdr, pipe, stats>>

Next ==
    \/ \E s \in Subdomains, b \in BOOLEAN : FetchTunnel(s, b)
    \/ \E u \in UpgradeHeaders, q \in Subdomains \cup {""} : GetTunnelRefused(u, q)
    \/ \E s \in Subdomains : FetchVisitorWS(s)
    \/ \E s \in Subdomains, b \in BOOLEAN : FetchHTTP(s, b)
    \/ \E r \in Ids : BodyRead(r)
    \/ \E r \in Ids : Timeout(r)
    \/ \E k \in SockIds, id \in Ids, st \in LocalStatuses : AgentHttpResponse(k, id, st)
    \/ \E k \in SockIds, id \in Ids : AgentWsFrame(k, id)
    \/ \E k \in SockIds, id \in Ids, c \in AgentCodes : AgentWsClose(k, id, c)
    \/ \E v \in SockIds : VisitorMessage(v)
    \/ \E k \in SockIds, c \in PeerCodes : CloseEvent(k, c)
    \/ \E k \in SockIds : ErrorEvent(k)
    \/ \E cs \in SUBSET {k \in SockIds : sock[k].st = "closing"} :
           \E t \in RestoreChoices(cs) : ColdStart(cs, t)

Spec == Init /\ [][Next]_vars

\* the body read, the 30s timer and the agent's worker are scheduled by
\* their runtimes: each happens if it stays possible
SpecFair ==
    /\ Spec
    /\ \A r \in Ids : WF_vars(BodyRead(r)) /\ WF_vars(Timeout(r))

\* ------------------------------------------------- one session, end to end
\* The session of SpecRelay: agent socket 1 of subdomain "a", visitor socket
\* 2 with session id 1; the edge has sent the ws-open, the agent's reader has
\* not read it yet.
RelaySub == "a"
RelayInit ==
    /\ sock = [k \in SockIds |->
                  CASE k = 1 -> [st |-> "open", kind |-> "agent", sub |-> RelaySub, sid |-> 0]
                    [] k = 2 -> [st |-> "open", kind |-> "visitor", sub |-> RelaySub, sid |-> 1]
                    [] OTHER -> NoSock]
    /\ tunnels = [s \in Subdomains |-> IF s = RelaySub THEN 1 ELSE 0]
    /\ visitorSockets = [id \in Ids |-> IF id = 1 THEN 2 ELSE 0]
    /\ pendingRequests = [id \in Ids |-> NoPending]
    /\ reqs = [id \in Ids |-> NoReq]
    /\ atAgent = [k \in SockIds |-> IF k = 1 THEN {[type |-> "ws-open", id |-> 1]} ELSE {}]
    /\ nextSock = 3
    /\ nextId = 2
    /\ frames = 0
    /\ last = [op |-> "visitorUpgrade", s |-> RelaySub, k |-> 2, id |-> 1, old |-> 0]
    /\ log = << <<"send", 1, "ws-open", 1, 0>>, <<"accept", 2, "visitor">>,
                <<"visitors.set", 1, 2>> >>
    /\ relay = [NoRelay EXCEPT !.tunnelQ = <<[type |-> "ws-open", id |-> 1, n |-> 0]>>]
    /\ tun = NoTun
    /\ agent = NoAgent
    /\ front = NoFront
    /\ hdr = NoHdr
    /\ pipe = NoPipe
    /\ stats = NoStats

\* the frames a handler sent on socket k, in the order it sent them
RECURSIVE SentOn(_, _)
SentOn(lg, k) ==
    IF lg = <<>>
    THEN <<>>
    ELSE IF Head(lg)[1] = "send" /\ Head(lg)[2] = k
         THEN <<Head(lg)[5]>> \o SentOn(Tail(lg), k)
         ELSE SentOn(Tail(lg), k)

\* the envelopes a handler sent on socket k, in the order it sent them
RECURSIVE EnvelopesOn(_, _)
EnvelopesOn(lg, k) ==
    IF lg = <<>>
    THEN <<>>
    ELSE IF Head(lg)[1] = "send" /\ Head(lg)[2] = k
         THEN <<[type |-> Head(lg)[3], id |-> Head(lg)[4], n |-> Head(lg)[5]]>>
                  \o EnvelopesOn(Tail(lg), k)
         ELSE EnvelopesOn(Tail(lg), k)

\* writeJSON(v) of connectAndServe: one whole message under writeMutex; it
\* returns an error once the agent socket is broken
WriteJSON(r, m) ==
    IF r.tunnelUp THEN [r EXCEPT !.agentQ = Append(@, m)] ELSE r

\* r.writeJSON(types.WSClose{...}) of the relay
WriteWSClose(r, id, code) ==
    [WriteJSON(r, [type |-> "ws-close", n |-> code]) EXCEPT !.closeSent = @ + 1]

\* a relay that answers a failed dial with a normal close
HandleOpen_NormalClose(r, msg, dialOk) ==
    IF ~dialOk
    THEN WriteWSClose(r, msg.id, CodeNormal)
    ELSE [r EXCEPT !.sessions = @ \cup {msg.id}, !.opened = TRUE,
                   !.conn = "open", !.loop = "read"]

\* WSRelay.HandleOpen: dial the local server; on failure answer ws-close
\* 1011, on success store the session and start its readLoop
HandleOpen(r, msg, dialOk) ==
    IF ~dialOk
    THEN WriteWSClose(r, msg.id, CodeError)
    ELSE [r EXCEPT !.sessions = @ \cup {msg.id}, !.opened = TRUE,
                   !.conn = "open", !.loop = "read"]

\* WSRelay.HandleFrame: look the session up, write the frame on its local
\* WebSocket under the session's write mutex
HandleFrame(r, msg) ==
    IF msg.id \notin r.sessions
    THEN r
    ELSE IF r.conn = "open"
         THEN [r EXCEPT !.local = Append(@, msg.n)]
         ELSE r

\* mutant of HandleClose: the session is closed and left in the table
HandleClose_NoDelete(r, msg) ==
    IF msg.id \notin r.sessions
    THEN [r EXCEPT !.closeRan = TRUE]
    ELSE [r EXCEPT !.removedByClose = TRUE, !.conn = "closed", !.closeRan = TRUE]

\* WSRelay.HandleClose: look the session up and remove it; when it was
\* there, write a close frame on the local WebSocket and close it
HandleClose(r, msg) ==
    IF msg.id \notin r.sessions
    THEN [r EXCEPT !.closeRan = TRUE]
    ELSE [r EXCEPT !.sessions = @ \ {msg.id}, !.removedByClose = TRUE,
                   !.conn = "closed", !.closeRan = TRUE]

\* the worker's dispatch on the envelope's type (spec 4.2, Reader)
handleMessage(r, msg, dialOk) ==
    CASE msg.type = "ws-open" -> HandleOpen(r, msg, dialOk)
      [] msg.type = "ws-frame" -> HandleFrame(r, msg)
      [] msg.type = "ws-close" -> HandleClose(r, msg)
      [] OTHER -> r

\* the envelopes the edge can have sent the agent for the session
RelayEnvelopes ==
    {[type |-> "ws-open", id |-> 1, n |-> 0]}
    \cup {[type |-> "ws-frame", id |-> 1, n |-> n] : n \in 1..MaxRelayFrames}
    \cup {[type |-> "ws-close", id |-> 1, n |-> c] : c \in PeerCodes}

EdgeUnchanged ==
    UNCHANGED <<sock, tunnels, visitorSockets, pendingRequests, reqs, atAgent,
                nextSock, nextId, frames, last, log, tun, agent,
                front, hdr, pipe, stats>>

\* the visitor writes its next frame
RVisitorSend ==
    /\ relay.vsent < MaxRelayFrames
    /\ ~relay.vclosed
    /\ relay' = [relay EXCEPT !.vsent = @ + 1, !.toEdge = Append(@, relay.vsent + 1)]
    /\ EdgeUnchanged

\* the visitor closes its socket (0 marks the close after its frames)
RVisitorClose ==
    /\ ~relay.vclosed
    /\ relay' = [relay EXCEPT !.vclosed = TRUE, !.toEdge = Append(@, 0)]
    /\ EdgeUnchanged

\* webSocketMessage on the visitor socket: forwardVisitorFrame
REdgeForward ==
    /\ relay.toEdge # <<>>
    /\ Head(relay.toEdge) # 0
    /\ Commit(webSocketMessage(Cur, 2,
           [type |-> "frame", id |-> 0, n |-> Head(relay.toEdge), code |-> 0]))
    /\ relay' = [relay EXCEPT
           !.toEdge = Tail(@),
           !.tunnelQ = IF relay.tunnelUp THEN @ \o EnvelopesOn(log', 1) ELSE @]
    /\ Did("visitorMessage", RelaySub, 2, 1)
    /\ UNCHANGED <<nextSock, nextId, frames, tun, agent, front, hdr, pipe, stats>>

\* webSocketClose on the visitor socket: the ws-close for the agent
REdgeVisitorClose ==
    /\ relay.toEdge # <<>>
    /\ Head(relay.toEdge) = 0
    /\ Connected(2)
    /\ \E c \in PeerCodes :
           /\ Commit(webSocketClose(Cur, 2, c))
           /\ relay' = [relay EXCEPT
                  !.toEdge = Tail(@),
                  !.tunnelQ = IF relay.tunnelUp THEN @ \o EnvelopesOn(log', 1) ELSE @]
    /\ Did("visitorClose", RelaySub, 2, 1)
    /\ UNCHANGED <<nextSock, nextId, frames, tun, agent, front, hdr, pipe, stats>>

\* connectAndServe: the reader takes the next message off the socket and
\* hands it to a worker of its own (go func(msg))
RReader ==
    /\ relay.tunnelUp
    /\ relay.tunnelQ # <<>>
    /\ relay' = [relay EXCEPT !.tunnelQ = Tail(@),
                              !.workers = @ \cup {Head(relay.tunnelQ)}]
    /\ EdgeUnchanged

\* one of the workers runs
RWorker(m, dialOk) ==
    /\ m \in relay.workers
    /\ relay' = [handleMessage(relay, m, dialOk) EXCEPT !.workers = @ \ {m}]
    /\ EdgeUnchanged

\* the local echo server answers the next frame it received
RLocalEcho ==
    /\ relay.conn = "open"
    /\ relay.echoed < Len(relay.local)
    /\ relay' = [relay EXCEPT !.echoed = @ + 1,
                              !.localQ = Append(@, relay.local[relay.echoed + 1])]
    /\ EdgeUnchanged

\* the local server closes the WebSocket
RLocalClose ==
    /\ relay.conn = "open"
    /\ relay' = [relay EXCEPT !.conn = "peerClosed"]
    /\ EdgeUnchanged

\* WSRelay.readLoop: sess.conn.ReadMessage() returns a frame
RReadLoopRead ==
    /\ relay.loop = "read"
    /\ relay.hand = 0
    /\ relay.conn \in {"open", "peerClosed"}
    /\ relay.localQ # <<>>
    /\ relay' = [relay EXCEPT !.hand = Head(relay.localQ), !.localQ = Tail(@)]
    /\ EdgeUnchanged

\* WSRelay.readLoop: sess.conn.ReadMessage() returns an error (the local
\* server has closed, or HandleClose has closed the connection): the loop
\* writes the ws-close and returns
RReadLoopError ==
    /\ relay.loop = "read"
    /\ relay.hand = 0
    /\ \/ relay.conn = "closed"
       \/ relay.conn = "peerClosed" /\ relay.localQ = <<>>
    /\ relay' = [WriteWSClose(relay, 1, CodeNormal) EXCEPT !.loop = "defer"]
    /\ EdgeUnchanged

\* WSRelay.readLoop: r.writeJSON(frame); on an error the loop returns
RReadLoopWrite ==
    /\ relay.loop = "read"
    /\ relay.hand # 0
    /\ relay' = [WriteJSON(relay, [type |-> "ws-frame", n |-> relay.hand]) EXCEPT
                    !.hand = 0,
                    !.loop = IF relay.tunnelUp THEN "read" ELSE "defer"]
    /\ EdgeUnchanged

\* WSRelay.readLoop: the deferred sess.conn.Close() and delete
RReadLoopDefer ==
    /\ relay.loop = "defer"
    /\ relay' = [relay EXCEPT !.loop = "done", !.conn = "closed",
                              !.sessions = @ \ {1}]
    /\ EdgeUnchanged

\* the agent socket breaks: what the edge had sent and the reader had not
\* read is lost, the reader returns, writes fail from now on
RTunnelBreak ==
    /\ relay.tunnelUp
    /\ relay' = [relay EXCEPT !.tunnelUp = FALSE, !.tunnelQ = <<>>]
    /\ EdgeUnchanged

\* webSocketMessage on the agent socket: deliverFrameToVisitor, or the
\* ws-close of the session
REdgeDeliver ==
    /\ relay.agentQ # <<>>
    /\ Connected(1)
    /\ LET m == Head(relay.agentQ)
       IN /\ Commit(webSocketMessage(Cur, 1,
                 [type |-> m.type, id |-> 1, n |-> m.n, code |-> m.n]))
          /\ Did(IF m.type = "ws-frame" THEN "wsFrame" ELSE "wsClose", RelaySub, 1, 1)
    /\ relay' = [relay EXCEPT !.agentQ = Tail(@),
                              !.visitor = @ \o SentOn(log', 2)]
    /\ UNCHANGED <<nextSock, nextId, frames, tun, agent, front, hdr, pipe, stats>>

RelayNext ==
    \/ RVisitorSend
    \/ RVisitorClose
    \/ REdgeForward
    \/ REdgeVisitorClose
    \/ RReader
    \/ \E m \in RelayEnvelopes, b \in BOOLEAN : RWorker(m, b)
    \/ RLocalEcho
    \/ RLocalClose
    \/ RReadLoopRead
    \/ RReadLoopError
    \/ RReadLoopWrite
    \/ RReadLoopDefer
    \/ RTunnelBreak
    \/ REdgeDeliver

SpecRelay == RelayInit /\ [][RelayNext]_vars

\* the agent's goroutines and the edge's handlers keep taking their steps;
\* the visitor, the local server and the network are not obliged to act
SpecRelayFair ==
    /\ SpecRelay
    /\ WF_vars(REdgeForward) /\ WF_vars(REdgeVisitorClose) /\ WF_vars(REdgeDeliver)
    /\ WF_vars(RReader)
    /\ WF_vars(\E m \in RelayEnvelopes, b \in BOOLEAN : RWorker(m, b))
    /\ WF_vars(RReadLoopRead) /\ WF_vars(RReadLoopError)
    /\ WF_vars(RReadLoopWrite) /\ WF_vars(RReadLoopDefer)

\* ------------------------------------------------- the agent's tunnel loops
\* StartTunnel, top of the retry loop: select { case <-done: return; default: }
CheckDone(t, done) ==
    [t EXCEPT !.chk = done, !.pc = IF done THEN "returned" ELSE "dial"]

\* connectAndServe: websocket.DefaultDialer.Dial; on success the deferred
\* c.Close is armed and the watcher goroutine started; on failure the error
\* is returned to StartTunnel, which goes to its backoff
Dial(t, ok) ==
    IF ok
    THEN [t EXCEPT !.pc = "serve", !.conn = "open", !.watcher = "wait"]
    ELSE [t EXCEPT !.pc = "backoff", !.slept = FALSE]

\* mutant of WatcherFire: the close frame is written, the socket is left open
WatcherFire_NoClose(t) == [t EXCEPT !.watcher = "exit"]

\* the watcher goroutine after <-done: write the close frame 1000
\* "shutdown", then c.Close()
WatcherFire(t) == [t EXCEPT !.watcher = "exit", !.conn = "closed"]

\* connectAndServe: c.ReadMessage() fails, the error is returned, the
\* deferred c.Close() runs; a watcher still blocked on done stays behind
ReaderExit(t) ==
    [t EXCEPT !.pc = "backoff", !.slept = FALSE, !.conn = "none",
              !.watcher = "none",
              !.stale = IF t.watcher = "wait" THEN @ + 1 ELSE @]

\* mutant of BackoffTimer: the loop goes on without the sleep being recorded
BackoffTimer_NoSleep(t) == [t EXCEPT !.pc = "dial"]

\* StartTunnel: case <-time.After(5 * time.Second)
BackoffTimer(t) == [t EXCEPT !.pc = "check", !.slept = TRUE]

TunUnchanged ==
    UNCHANGED <<sock, tunnels, visitorSockets, pendingRequests, reqs, atAgent,
                nextSock, nextId, frames, last, log, relay, agent,
                front, hdr, pipe, stats>>

\* main: the signal goroutine closes done
TSignal ==
    /\ ~tun.done
    /\ tun' = [tun EXCEPT !.done = TRUE]
    /\ TunUnchanged

TCheck(s) ==
    /\ tun.t[s].pc = "check"
    /\ tun' = [tun EXCEPT !.t[s] = CheckDone(@, tun.done)]
    /\ TunUnchanged

TDial(s, ok) ==
    /\ tun.t[s].pc = "dial"
    /\ ok => tun.t[s].stale < MaxStale
    /\ tun' = [tun EXCEPT !.t[s] = Dial(@, ok)]
    /\ TunUnchanged

TWatcher(s) ==
    /\ tun.t[s].watcher = "wait"
    /\ tun.done
    /\ tun' = [tun EXCEPT !.t[s] = WatcherFire(@)]
    /\ TunUnchanged

\* a watcher of an earlier connection wakes up: its write and its Close on
\* the closed socket fail and it ends
TStaleWatcher(s) ==
    /\ tun.t[s].stale > 0
    /\ tun.done
    /\ tun' = [tun EXCEPT !.t[s].stale = @ - 1]
    /\ TunUnchanged

\* the connection fails, or the edge closes the socket
TBreak(s) ==
    /\ tun.t[s].conn = "open"
    /\ tun' = [tun EXCEPT !.t[s].conn = "broken"]
    /\ TunUnchanged

TReaderExit(s) ==
    /\ tun.t[s].pc = "serve"
    /\ tun.t[s].conn \in {"closed", "broken"}
    /\ tun' = [tun EXCEPT !.t[s] = ReaderExit(@)]
    /\ TunUnchanged

\* StartTunnel: case <-done in the backoff
TBackoffDone(s) ==
    /\ tun.t[s].pc = "backoff"
    /\ tun.done
    /\ tun' = [tun EXCEPT !.t[s].pc = "returned"]
    /\ TunUnchanged

TBackoffTimer(s) ==
    /\ tun.t[s].pc = "backoff"
    /\ tun' = [tun EXCEPT !.t[s] = BackoffTimer(@)]
    /\ TunUnchanged

\* main: wg.Wait() returns
TMainExit ==
    /\ tun.main = "wait"
    /\ \A s \in Tunnels : tun.t[s].pc = "returned"
    /\ tun' = [tun EXCEPT !.main = "exited"]
    /\ TunUnchanged

TunnelsNext ==
    \/ TSignal
    \/ \E s \in Tunnels : TCheck(s)
    \/ \E s \in Tunnels, ok \in BOOLEAN : TDial(s, ok)
    \/ \E s \in Tunnels : TWatcher(s)
    \/ \E s \in Tunnels : TStaleWatcher(s)
    \/ \E s \in Tunnels : TBreak(s)
    \/ \E s \in Tunnels : TReaderExit(s)
    \/ \E s \in Tunnels : TBackoffDone(s)
    \/ \E s \in Tunnels : TBackoffTimer(s)
    \/ TMainExit

SpecTunnels == Init /\ [][TunnelsNext]_vars

\* every goroutine that can run does run; the signal and the failure of a
\* connection are the environment's
SpecTunnelsFair ==
    /\ SpecTunnels
    /\ \A s \in Tunnels :
           /\ WF_vars(TCheck(s))
           /\ WF_vars(\E ok \in BOOLEAN : TDial(s, ok))
           /\ WF_vars(TWatcher(s))
           /\ WF_vars(TStaleWatcher(s))
           /\ WF_vars(TReaderExit(s))
           /\ WF_vars(TBackoffDone(s))
           /\ WF_vars(TBackoffTimer(s))
    /\ WF_vars(TMainExit)

\* ------------------------------------------------- one agent connection
\* the envelope types the edge sends on the agent socket: an http-request,
\* and a type the agent does not know
AgentTypes == {"http-request", "bogus"}
Failures == {"none", "decode", "build", "connect", "read"}

\* a worker that logs a failed request is logged and not answered
GoWorker_DropOnFailure(w, i, failure, status) ==
    IF failure = "none"
    THEN [w EXCEPT !.pc = "lock", !.failure = failure, !.local = TRUE,
                   !.resp = HandleRequest([id |-> i], failure, status)]
    ELSE [w EXCEPT !.pc = "done", !.failure = failure]

\* the worker goroutine of connectAndServe up to its writeJSON: unmarshal
\* the message into a TunnelRequest (whatever its type), call HandleRequest
GoWorker(w, i, failure, status) ==
    [w EXCEPT !.pc = "lock", !.failure = failure,
              !.local = failure \in {"none", "connect", "read"},
              !.resp = HandleRequest([id |-> i], failure, status)]

\* writeJSON / writeText: writeMutex.Lock(), then the write on c begins
LockAndWrite(a, who) == [a EXCEPT !.mutex = who, !.writing = @ \cup {who}]

\* the write on c ends (the message is on the wire when the socket is
\* open), then the deferred writeMutex.Unlock()
WrittenAndUnlock(a, who, m) ==
    [a EXCEPT !.mutex = Nobody, !.writing = @ \ {who},
              !.wire = IF a.conn = "open" THEN Append(@, m) ELSE @]

AgentUnchanged ==
    UNCHANGED <<sock, tunnels, visitorSockets, pendingRequests, reqs, atAgent,
                nextSock, nextId, frames, last, log, relay, tun,
                front, hdr, pipe, stats>>

\* main: the signal goroutine closes done
ASignal ==
    /\ ~agent.done
    /\ agent' = [agent EXCEPT !.done = TRUE]
    /\ AgentUnchanged

\* the edge sends a message on the agent socket
AEdgeSends(type) ==
    /\ agent.conn = "open"
    /\ agent.sent < MaxAgentMsgs
    /\ agent' = [agent EXCEPT !.sent = @ + 1,
                              !.inQ = Append(@, [type |-> type, id |-> agent.sent + 1])]
    /\ AgentUnchanged

\* a read loop that handles each message itself before it reads the next
ReaderReady_Inline(a) ==
    /\ a.reader = "read"
    /\ \A i \in AgentMsgs : a.w[i].pc \in {"none", "done"}

\* the read loop is back at c.ReadMessage(): go func(msg) returns at once
ReaderReady(a) == a.reader = "read"

\* the read loop: c.ReadMessage() returns a message, go func(msg)
AReader ==
    /\ ReaderReady(agent)
    /\ agent.conn = "open"
    /\ agent.inQ # <<>>
    /\ LET m == Head(agent.inQ)
       IN agent' = [agent EXCEPT !.inQ = Tail(@),
                                 !.w[m.id] = [NoWorker EXCEPT !.pc = "handle", !.type = m.type]]
    /\ AgentUnchanged

\* the read loop: c.ReadMessage() fails, connectAndServe returns
AReaderExit ==
    /\ agent.reader = "read"
    /\ agent.conn = "closed"
    /\ agent' = [agent EXCEPT !.reader = "exit"]
    /\ AgentUnchanged

AWorkerHandle(i, failure, status) ==
    /\ agent.w[i].pc = "handle"
    /\ agent' = [agent EXCEPT !.w[i] = GoWorker(@, i, failure, status)]
    /\ AgentUnchanged

\* writeJSON(resp): Lock and enter c.WriteJSON
AWorkerLock(i) ==
    /\ agent.w[i].pc = "lock"
    /\ agent.mutex = Nobody
    /\ agent' = [LockAndWrite(agent, Worker(i)) EXCEPT !.w[i].pc = "write", !.w[i].emitted = @ + 1]
    /\ AgentUnchanged

\* writeJSON(resp): c.WriteJSON returns, Unlock
AWorkerWritten(i) ==
    /\ agent.w[i].pc = "write"
    /\ agent' = [WrittenAndUnlock(agent, Worker(i), [type |-> agent.w[i].resp.type,
                                              id |-> agent.w[i].resp.id]) EXCEPT
                    !.w[i].pc = "done"]
    /\ AgentUnchanged

\* keepalive: case <-ticker.C
AKeepTick ==
    /\ agent.keep = "idle"
    /\ agent.pings < MaxPings
    /\ agent' = [agent EXCEPT !.keep = "lock", !.pings = @ + 1]
    /\ AgentUnchanged

\* keepalive: case <-done
AKeepDone ==
    /\ agent.keep = "idle"
    /\ agent.done
    /\ agent' = [agent EXCEPT !.keep = "exit"]
    /\ AgentUnchanged

\* keepalive: writeText("ping"): Lock and enter c.WriteMessage
AKeepLock ==
    /\ agent.keep = "lock"
    /\ agent.mutex = Nobody
    /\ agent' = [LockAndWrite(agent, Keepalive) EXCEPT !.keep = "write"]
    /\ AgentUnchanged

\* keepalive: the write returns, Unlock; a failed write ends the keepalive
AKeepWritten ==
    /\ agent.keep = "write"
    /\ agent' = [WrittenAndUnlock(agent, Keepalive, [type |-> "ping", id |-> 0]) EXCEPT
                    !.keep = IF agent.conn = "open" THEN "idle" ELSE "exit"]
    /\ AgentUnchanged

\* watcher: <-done returns and c.WriteMessage(CloseMessage, ...) begins; the
\* watcher does not take writeMutex
AWatcherWake ==
    /\ agent.watcher = "wait"
    /\ agent.done
    /\ agent' = [agent EXCEPT !.watcher = "write", !.writing = @ \cup {Watcher}]
    /\ AgentUnchanged

\* watcher: the close frame is written
AWatcherWritten ==
    /\ agent.watcher = "write"
    /\ agent' = [agent EXCEPT !.watcher = "close", !.writing = @ \ {Watcher},
                              !.wire = Append(@, [type |-> "close", id |-> 0])]
    /\ AgentUnchanged

\* watcher: c.Close()
AWatcherClose ==
    /\ agent.watcher = "close"
    /\ agent' = [agent EXCEPT !.watcher = "exit", !.conn = "closed"]
    /\ AgentUnchanged

AgentNext ==
    \/ ASignal
    \/ \E ty \in AgentTypes : AEdgeSends(ty)
    \/ AReader
    \/ AReaderExit
    \/ \E i \in AgentMsgs, f \in Failures, st \in LocalStatuses : AWorkerHandle(i, f, st)
    \/ \E i \in AgentMsgs : AWorkerLock(i)
    \/ \E i \in AgentMsgs : AWorkerWritten(i)
    \/ AKeepTick
    \/ AKeepDone
    \/ AKeepLock
    \/ AKeepWritten
    \/ AWatcherWake
    \/ AWatcherWritten
    \/ AWatcherClose

SpecAgent == Init /\ [][AgentNext]_vars

\* Every goroutine that can run does run, except that the local round trip
\* of the first request may never end.
SpecAgentFair ==
    /\ SpecAgent
    /\ WF_vars(AReader)
    /\ WF_vars(\E f \in Failures, st \in LocalStatuses : AWorkerHandle(2, f, st))
    /\ \A i \in AgentMsgs : WF_vars(AWorkerLock(i)) /\ WF_vars(AWorkerWritten(i))
    /\ WF_vars(AKeepLock)
    /\ WF_vars(AKeepWritten)

\* ------------------------------------------------------------ the Worker
\* CACHE_TTL_MS, in the unit of now
CACHE_TTL == 1
maxRetries == 10
StatusUnauthorized == 401
StatusForbidden == 403
StatusOK == 200
StatusServerError == 500

\* generateSubdomain(length): the strings followed here
Candidates(len) == {Pad(NameClean, len), Pad(NameBlocked, len), Pad(NameTaken, len)}

\* some of BLOCKED_PATTERNS
BlockedPatterns == {<<"a", "s", "s">>, <<"s", "e", "x">>, <<"a", "5", "5">>}

\* blockedRegex.test(subdomain): a blocked pattern occurs somewhere in it
isSubdomainBlocked(subdomain) ==
    \E p \in BlockedPatterns :
        \E i \in 1..Len(subdomain) :
            /\ i + Len(p) - 1 <= Len(subdomain)
            /\ SubSeq(subdomain, i, i + Len(p) - 1) = p

\* allocateSubdomain never lengthens the candidate
NextLength_Fixed(retries, len) == len

\* allocateSubdomain: if (retries >= 4) subdomainLength++
NextLength(retries, len) == IF retries >= 4 THEN len + 1 ELSE len

\* a table whose only key is the subdomain (the first schema)
InsertAllowed_SubdomainOnly(db, row) ==
    \A x \in db : x.subdomain # row.subdomain

\* the constraints of tunnels: subdomain UNIQUE, and the unique index on
\* (client_id, port)
InsertAllowed(db, row) ==
    /\ \A x \in db : x.subdomain # row.subdomain
    /\ \A x \in db : ~(x.client_id = row.client_id /\ x.port = row.port)

\* the config column as JSON.stringify(body.config) or the default "{}"
ConfigStr(config) == IF config = NoConfig THEN CfgOpen ELSE config

\* loadConfig: the entry it may return without a read
CacheHits(f, s) == {e \in f.cache : e.sub = s /\ f.now - e.fetchedAt < CACHE_TTL}

\* SELECT config FROM tunnels WHERE subdomain = ?, then JSON.parse
SelectConfig(db, s) ==
    IF \E x \in db : x.subdomain = s
    THEN (CHOOSE x \in db : x.subdomain = s).config
    ELSE CfgOpen

\* what the table holds for s
StoredConfig(db, s) ==
    IF \E x \in db : x.subdomain = s
    THEN (CHOOSE x \in db : x.subdomain = s).config
    ELSE NoRow

\* A middleware's outcome: res, the response it put in c.res (0: none), and
\* next, whether it called next().
\* the ipfilter middleware
ipfilter(config, visitorIp) ==
    IF config.allowIps = {}
    THEN [res |-> 0, next |-> TRUE]
    ELSE IF visitorIp = "" \/ visitorIp \notin config.allowIps
         THEN [res |-> StatusForbidden, next |-> FALSE]
         ELSE [res |-> 0, next |-> TRUE]

\* the auth middleware
auth(config, header) ==
    IF config.auth = ""
    THEN [res |-> 0, next |-> TRUE]
    ELSE IF header \notin {"basic-wrong", "basic-right"}
         THEN [res |-> StatusUnauthorized, next |-> TRUE]
         ELSE IF header # "basic-right"
              THEN [res |-> StatusUnauthorized, next |-> TRUE]
              ELSE [res |-> 0, next |-> TRUE]

\* pluginMiddleware() over the registered middlewares (ipfilter, auth), then
\* the wildcard handler: the handler runs when every middleware called
\* next(); a response already put in c.res is the one the visitor receives.
RunVisitor(config, header, visitorIp) ==
    LET m1 == ipfilter(config, visitorIp)
        m2 == auth(config, header)
    IN IF ~m1.next
       THEN [status |-> m1.res, forwarded |-> FALSE]
       ELSE IF ~m2.next
            THEN [status |-> m2.res, forwarded |-> FALSE]
            ELSE [status |-> IF m2.res # 0 THEN m2.res ELSE StatusOK,
                  forwarded |-> TRUE]

AuthHeaders == {"none", "bearer", "basic-wrong", "basic-right"}
VisitorIp == "203.0.113.7"

FrontUnchanged ==
    UNCHANGED <<sock, tunnels, visitorSockets, pendingRequests, reqs, atAgent,
                nextSock, nextId, frames, last, log, relay, tun, agent, hdr, pipe, stats>>

InProgress(v) == front.visits[v].pc \notin {"none", "done"}

\* body.ports: the lists followed here
PortLists == UNION {[1..n -> Ports] : n \in 1..MaxCallPorts}

\* results[port] = subdomain
SetResult(results, port, subdomain) ==
    {e \in results : e.port # port} \cup {[port |-> port, subdomain |-> subdomain]}

\* the for loop over ports, from its next port up to the next await: a port
\* of existingMap is answered from the map (after the UPDATE when the body
\* has a config), any other goes to allocateSubdomain; after the last port
\* the handler answers 200 with results
RECURSIVE ForPorts(_)
ForPorts(g) ==
    IF g.rest = <<>>
    THEN [g EXCEPT !.pc = "done", !.status = StatusOK]
    ELSE LET port == Head(g.rest)
             g1 == [g EXCEPT !.port = port, !.rest = Tail(@)]
         IN IF \E e \in g.existing : e.port = port
            THEN LET sub == (CHOOSE e \in g.existing : e.port = port).subdomain
                 IN IF g.config # NoConfig
                    THEN [g1 EXCEPT !.pc = "update", !.sub = sub]
                    ELSE ForPorts([g1 EXCEPT !.sub = sub,
                                             !.results = SetResult(@, port, sub)])
            ELSE [g1 EXCEPT !.pc = "gen", !.retries = 0, !.len = 4,
                            !.tried = <<>>, !.cand = <<>>, !.inserted = FALSE]

\* POST /api/register {clientId, ports, config} arrives
RegStart(r, ports, config) ==
    /\ front.regs[r].pc = "none"
    /\ r > 1 => front.regs[r - 1].pc # "none"
    /\ front' = [front EXCEPT
                    !.regs[r] = [NoReg EXCEPT !.pc = "select", !.ports = ports,
                                              !.rest = ports, !.port = Head(ports),
                                              !.config = config],
                    !.visits = [v \in Visits |->
                                   IF InProgress(v) THEN [@[v] EXCEPT !.quiet = FALSE]
                                   ELSE @[v]]]
    /\ FrontUnchanged

\* SELECT port, subdomain FROM tunnels WHERE client_id = ?
RegSelect(r) ==
    /\ front.regs[r].pc = "select"
    /\ LET g == front.regs[r]
           existing == {[port |-> x.port, subdomain |-> x.subdomain] :
                           x \in {y \in front.db : y.client_id = ClientId}}
       IN front' = [front EXCEPT !.regs[r] = ForPorts([g EXCEPT !.existing = existing])]
    /\ FrontUnchanged

\* UPDATE tunnels SET config = ? WHERE client_id = ? AND port = ?
RegUpdate(r) ==
    /\ front.regs[r].pc = "update"
    /\ LET g == front.regs[r]
       IN front' = [front EXCEPT
              !.db = {IF x.client_id = ClientId /\ x.port = g.port
                      THEN [x EXCEPT !.config = g.config] ELSE x : x \in front.db},
              !.regs[r].pc = "invalidate"]
    /\ FrontUnchanged

\* invalidateConfigCache(existingMap.get(port)), results[port], and on with
\* the loop
RegInvalidate(r) ==
    /\ front.regs[r].pc = "invalidate"
    /\ LET g == front.regs[r]
       IN front' = [front EXCEPT
              !.cache = {e \in @ : e.sub # g.sub},
              !.regs[r] = ForPorts([g EXCEPT !.results = SetResult(@, g.port, g.sub)])]
    /\ FrontUnchanged

\* allocateSubdomain: one turn of the loop up to the SELECT's answer
RegGenerate(r, cand) ==
    /\ front.regs[r].pc = "gen"
    /\ cand \in Candidates(front.regs[r].len)
    /\ LET g == [front.regs[r] EXCEPT !.tried = Append(@, Len(cand))]
           retries == g.retries + 1
       IN front' = [front EXCEPT !.regs[r] =
              IF \A x \in front.db : x.subdomain # cand
              THEN [g EXCEPT !.pc = "insert", !.cand = cand]
              ELSE IF retries < maxRetries
                   THEN [g EXCEPT !.retries = retries,
                                  !.len = NextLength(retries, g.len)]
                   ELSE [g EXCEPT !.pc = "done", !.retries = retries,
                                  !.len = NextLength(retries, g.len),
                                  !.status = StatusServerError]]
    /\ FrontUnchanged

\* allocateSubdomain: the INSERT, results[port] and on with the loop; a
\* constraint failure throws and the handler's catch answers 500
RegInsert(r) ==
    /\ front.regs[r].pc = "insert"
    /\ LET g == front.regs[r]
           row == [subdomain |-> g.cand, client_id |-> ClientId, port |-> g.port,
                   config |-> ConfigStr(g.config)]
       IN IF InsertAllowed(front.db, row)
          THEN front' = [front EXCEPT
                   !.db = @ \cup {row},
                   !.regs[r] = ForPorts([g EXCEPT
                                   !.sub = g.cand, !.inserted = TRUE,
                                   !.results = SetResult(@, g.port, g.cand)])]
          ELSE front' = [front EXCEPT
                   !.regs[r] = [g EXCEPT !.pc = "done", !.status = StatusServerError]]
    /\ FrontUnchanged

\* a visitor request for subdomain s arrives: tunnelConfig, loadConfig up to
\* its SELECT
VisitStart(v, s, header) ==
    /\ front.visits[v].pc = "none"
    /\ v > 1 => front.visits[v - 1].pc # "none"
    /\ LET hits == CacheHits(front, s)
           w == [NoVisit EXCEPT !.sub = s, !.header = header,
                                !.stored = StoredConfig(front.db, s),
                                !.quiet = \A r \in Regs :
                                              front.regs[r].pc \in {"none", "done"}]
       IN front' = [front EXCEPT !.visits[v] =
              IF hits # {}
              THEN [w EXCEPT !.pc = "mw", !.config = (CHOOSE e \in hits : TRUE).config]
              ELSE [w EXCEPT !.pc = "select"]]
    /\ FrontUnchanged

\* loadConfig: the SELECT is answered
VisitSelect(v) ==
    /\ front.visits[v].pc = "select"
    /\ front' = [front EXCEPT
           !.visits[v].pc = "set",
           !.visits[v].config = SelectConfig(front.db, front.visits[v].sub)]
    /\ FrontUnchanged

\* loadConfig: configCache.set(subdomain, {config, fetchedAt: Date.now()})
VisitSet(v) ==
    /\ front.visits[v].pc = "set"
    /\ LET w == front.visits[v]
       IN front' = [front EXCEPT
              !.cache = {e \in @ : e.sub # w.sub} \cup
                        {[sub |-> w.sub, config |-> w.config, fetchedAt |-> front.now]},
              !.visits[v].pc = "mw"]
    /\ FrontUnchanged

\* pluginMiddleware() and the wildcard handler
VisitMiddleware(v) ==
    /\ front.visits[v].pc = "mw"
    /\ LET w == front.visits[v]
           out == RunVisitor(w.config, w.header, VisitorIp)
       IN front' = [front EXCEPT
              !.visits[v] = [w EXCEPT !.pc = "done", !.status = out.status,
                                      !.forwarded = out.forwarded]]
    /\ FrontUnchanged

\* time passes
FrontTick ==
    /\ front.now < MaxTime
    /\ front' = [front EXCEPT !.now = @ + 1]
    /\ FrontUnchanged

\* the /api/register calls of one client
RegisterNext ==
    \/ \E r \in Regs, p \in Ports, cfg \in {NoConfig, CfgAuth} : RegStart(r, <<p>>, cfg)
    \/ \E r \in Regs : RegSelect(r)
    \/ \E r \in Regs : RegUpdate(r)
    \/ \E r \in Regs : RegInvalidate(r)
    \/ \E r \in Regs, len \in 4..10 : \E cand \in Candidates(len) : RegGenerate(r, cand)
    \/ \E r \in Regs : RegInsert(r)

SpecRegister == Init /\ [][RegisterNext]_vars

\* the first register call of a client, with any list of ports: its SELECT
\* finds no row of the client, so the loop takes no UPDATE
RegisterPortsNext ==
    \/ \E ports \in PortLists, cfg \in {NoConfig, CfgAuth} : RegStart(1, ports, cfg)
    \/ RegSelect(1)
    \/ \E len \in 4..10 : \E cand \in Candidates(len) : RegGenerate(1, cand)
    \/ RegInsert(1)

SpecRegisterPorts == Init /\ [][RegisterPortsNext]_vars

\* visitor requests, while the client registers port 1 and generateSubdomain
\* returns the free inoffensive name
VisitorsNext ==
    \/ \E r \in Regs, cfg \in {NoConfig, CfgAuth} : RegStart(r, <<1>>, cfg)
    \/ \E r \in Regs : RegSelect(r)
    \/ \E r \in Regs : RegUpdate(r)
    \/ \E r \in Regs : RegInvalidate(r)
    \/ \E r \in Regs : RegGenerate(r, Pad(NameClean, front.regs[r].len))
    \/ \E r \in Regs : RegInsert(r)
    \/ \E v \in Visits, h \in AuthHeaders : VisitStart(v, NameClean, h)
    \/ \E v \in Visits : VisitSelect(v)
    \/ \E v \in Visits : VisitSet(v)
    \/ \E v \in Visits : VisitMiddleware(v)
    \/ FrontTick

SpecVisitors == Init /\ [][VisitorsNext]_vars

\* ------------------------------------------------------ header filtering
\* Header names are sequences of characters.
Lowers == <<"a", "c", "d", "e", "g", "i", "k", "l", "n", "o", "p", "t", "x", "y">>
Uppers == <<"A", "C", "D", "E", "G", "I", "K", "L", "N", "O", "P", "T", "X", "Y">>
ToUpper(c) ==
    IF \E i \in 1..Len(Lowers) : Lowers[i] = c
    THEN Uppers[CHOOSE i \in 1..Len(Lowers) : Lowers[i] = c]
    ELSE c
ToLower(c) ==
    IF \E i \in 1..Len(Uppers) : Uppers[i] = c
    THEN Lowers[CHOOSE i \in 1..Len(Uppers) : Uppers[i] = c]
    ELSE c

\* http.CanonicalHeaderKey on a valid header name: the first letter and
\* every letter after a hyphen in upper case, the others in lower case
CanonicalHeaderKey(k) ==
    [i \in 1..Len(k) |-> IF i = 1 \/ k[i - 1] = "-" THEN ToUpper(k[i]) ELSE ToLower(k[i])]

\* strings.ToLower, to compare names whatever their case
LowerKey(k) == [i \in 1..Len(k) |-> ToLower(k[i])]

AcceptEncoding == <<"A", "c", "c", "e", "p", "t", "-", "E", "n", "c", "o", "d", "i", "n", "g">>
ContentEncoding == <<"C", "o", "n", "t", "e", "n", "t", "-", "E", "n", "c", "o", "d", "i", "n", "g">>
ContentLength == <<"C", "o", "n", "t", "e", "n", "t", "-", "L", "e", "n", "g", "t", "h">>
ContentType == <<"C", "o", "n", "t", "e", "n", "t", "-", "T", "y", "p", "e">>

\* the header names of the requests followed here
ReqKeys == {<<"a", "c", "c", "e", "p", "t", "-", "e", "n", "c", "o", "d", "i", "n", "g">>,
            <<"A", "c", "c", "e", "p", "t", "-", "E", "n", "c", "o", "d", "i", "n", "g">>,
            <<"A", "C", "C", "E", "P", "T", "-", "E", "N", "C", "O", "D", "I", "N", "G">>,
            <<"x", "-", "a">>,
            <<"X", "-", "A">>,
            <<"c", "o", "o", "k", "i", "e">>}
RespKeys == {ContentEncoding, ContentLength, ContentType}
HeaderVals == {<<"v1">>, <<"v1", "v2">>}

\* the header maps with at most MaxHeaders entries over the names in keys
HeaderMaps(keys) ==
    {m \in SUBSET [key : keys, vals : HeaderVals] :
        /\ Cardinality(m) <= MaxHeaders
        /\ \A x, y \in m : x.key = y.key => x = y}

\* a filter that compares the name as received
SkipRequestHeader_AsReceived(k) == k = AcceptEncoding

\* HandleRequest: if canonical == "Accept-Encoding" { continue }
SkipRequestHeader(k) == CanonicalHeaderKey(k) = AcceptEncoding

\* HandleRequest: httpReq.Header[canonical] = vals
SetHeader(h, k, vals) ==
    {e \in h : e.key # k} \cup {[key |-> k, vals |-> vals]}

\* HandleRequest: maps.Copy(headers, resp.Header) and the two deletes
ResponseHeaders(respHeader) ==
    {e \in respHeader : e.key # ContentEncoding /\ e.key # ContentLength}

HdrUnchanged ==
    UNCHANGED <<sock, tunnels, visitorSockets, pendingRequests, reqs, atAgent,
                nextSock, nextId, frames, last, log, relay, tun, agent, front, pipe,
                stats>>

\* HandleRequest is called with a request whose Headers are m
HStart(m) ==
    /\ hdr.pc = "idle"
    /\ hdr' = [hdr EXCEPT !.pc = "range", !.in = m, !.todo = {e.key : e \in m}]
    /\ HdrUnchanged

\* one turn of `for k, vals := range req.Headers`; the order of a map's
\* range is not defined
HRange(k) ==
    /\ hdr.pc = "range"
    /\ k \in hdr.todo
    /\ LET vals == (CHOOSE e \in hdr.in : e.key = k).vals
       IN hdr' = [hdr EXCEPT
              !.todo = @ \ {k},
              !.out = IF SkipRequestHeader(k) THEN @
                      ELSE SetHeader(@, CanonicalHeaderKey(k), vals)]
    /\ HdrUnchanged

\* client.Do(httpReq) returns a response whose headers are r
HDo(r) ==
    /\ hdr.pc = "range"
    /\ hdr.todo = {}
    /\ hdr' = [hdr EXCEPT !.pc = "do", !.resp = r]
    /\ HdrUnchanged

\* the TunnelResponse is built
HReturn ==
    /\ hdr.pc = "do"
    /\ hdr' = [hdr EXCEPT !.pc = "done", !.ret = ResponseHeaders(hdr.resp)]
    /\ HdrUnchanged

HeadersNext ==
    \/ \E m \in HeaderMaps(ReqKeys) : HStart(m)
    \/ \E k \in ReqKeys : HRange(k)
    \/ \E r \in HeaderMaps(RespKeys) : HDo(r)
    \/ HReturn

SpecHeaders == Init /\ [][HeadersNext]_vars

\* ------------------------------------------------- the plug-in pipeline
\* A plug-in as Activate sees it: Enabled(), and how many hooks
\* RequestHooks() and ConnectionHooks() return.  Hook <<p, j>> is the j-th
\* hook of the p-th registered plug-in.
PluginKinds == [enabled : BOOLEAN, req : 0..MaxHooks, conn : 0..MaxHooks]

\* the hooks of plug-in number p, in the order its method returns them
HooksOf(p, n) == [j \in 1..n |-> <<p, j>>]

\* Pipeline.Activate: the loop over p.plugins from plug-in number p on
RECURSIVE Activate(_, _)
Activate(pl, p) ==
    IF p > Len(pl.plugins)
    THEN pl
    ELSE IF ~pl.plugins[p].enabled
         THEN Activate(pl, p + 1)
         ELSE Activate([pl EXCEPT
                           !.reqHooks = @ \o HooksOf(p, pl.plugins[p].req),
                           !.connHooks = @ \o HooksOf(p, pl.plugins[p].conn)],
                       p + 1)

\* Pipeline.NotifyRequest
NotifyRequest(pl) ==
    [pl EXCEPT !.trace = @ \o [i \in 1..Len(pl.connHooks) |->
                                  <<"onRequest", pl.connHooks[i], <<>>>>]]

\* Pipeline.RunBeforeProxy: hook number i receives the request as the hooks
\* before it have rewritten it
RECURSIVE RunBeforeProxy(_, _)
RunBeforeProxy(pl, i) ==
    IF i > Len(pl.reqHooks)
    THEN pl
    ELSE RunBeforeProxy([pl EXCEPT
                            !.trace = Append(@, <<"before", pl.reqHooks[i], pl.req>>),
                            !.req = Append(@, pl.reqHooks[i])],
                        i + 1)

\* a pipeline that unwinds the after-proxy hooks in reverse
RECURSIVE RunAfterProxy_Reversed(_, _)
RunAfterProxy_Reversed(pl, i) ==
    IF i > Len(pl.reqHooks)
    THEN pl
    ELSE LET h == pl.reqHooks[Len(pl.reqHooks) + 1 - i]
         IN RunAfterProxy_Reversed([pl EXCEPT
                                       !.trace = Append(@, <<"after", h, pl.resp>>),
                                       !.resp = Append(@, h)],
                                   i + 1)

\* Pipeline.RunAfterProxy
RECURSIVE RunAfterProxy(_, _)
RunAfterProxy(pl, i) ==
    IF i > Len(pl.reqHooks)
    THEN pl
    ELSE RunAfterProxy([pl EXCEPT
                           !.trace = Append(@, <<"after", pl.reqHooks[i], pl.resp>>),
                           !.resp = Append(@, pl.reqHooks[i])],
                       i + 1)

\* the steps of one dispatch of an http-request, in the order handleMessage
\* makes them
DispatchOrder == <<"active", "before", "proxy", "after", "done">>
After(pc) == DispatchOrder[(CHOOSE i \in 1..Len(DispatchOrder) : DispatchOrder[i] = pc) + 1]

PipeUnchanged ==
    UNCHANGED <<sock, tunnels, visitorSockets, pendingRequests, reqs, atAgent,
                nextSock, nextId, frames, last, log, relay, tun, agent, front, hdr,
                stats>>

\* main: Pipeline.RegisterPlugin(pl)
PRegisterPlugin(kind) ==
    /\ pipe.pc = "setup"
    /\ Len(pipe.plugins) < MaxPlugins
    /\ pipe' = [pipe EXCEPT !.plugins = Append(@, kind)]
    /\ PipeUnchanged

\* main: Pipeline.Activate() after flag.Parse()
PActivate ==
    /\ pipe.pc = "setup"
    /\ pipe' = [Activate(pipe, 1) EXCEPT !.pc = "active"]
    /\ PipeUnchanged

\* dispatch: NotifyRequest(subdomain)
PNotifyRequest ==
    /\ pipe.pc = "active"
    /\ pipe' = [NotifyRequest(pipe) EXCEPT !.pc = After(pipe.pc)]
    /\ PipeUnchanged

\* dispatch: req = RunBeforeProxy(req)
PBeforeProxy ==
    /\ pipe.pc = "before"
    /\ pipe' = [RunBeforeProxy(pipe, 1) EXCEPT !.pc = After(pipe.pc)]
    /\ PipeUnchanged

\* dispatch: resp = HandleRequest(req, localPort)
PProxy ==
    /\ pipe.pc = "proxy"
    /\ pipe' = [pipe EXCEPT !.pc = After(pipe.pc),
                            !.trace = Append(@, <<"proxy", <<0, 0>>, pipe.req>>)]
    /\ PipeUnchanged

\* dispatch: resp = RunAfterProxy(req, resp)
PAfterProxy ==
    /\ pipe.pc = "after"
    /\ pipe' = [RunAfterProxy(pipe, 1) EXCEPT !.pc = After(pipe.pc)]
    /\ PipeUnchanged

PipelineNext ==
    \/ \E kind \in PluginKinds : PRegisterPlugin(kind)
    \/ PActivate
    \/ PNotifyRequest
    \/ PBeforeProxy
    \/ PProxy
    \/ PAfterProxy

SpecPipeline == Init /\ [][PipelineNext]_vars

\* ------------------------------------------------- the stats plug-in's Store
\* Store.RecordConnect: a fresh TunnelStats under the key, the subdomain
\* appended to tunnelOrder whether or not the key was there
RecordConnect(st, subdomain) ==
    [st EXCEPT !.tunnels[subdomain] =
                   [in |-> TRUE, TotalRequests |-> 0, ErrorCount |-> 0],
               !.tunnelOrder = Append(@, subdomain),
               !.reconnect = @ \/ st.tunnels[subdomain].in]

\* Store.RecordDisconnect: the key deleted, the first occurrence of the
\* subdomain cut out of tunnelOrder
RecordDisconnect(st, subdomain) ==
    LET order == st.tunnelOrder
        at == {i \in 1..Len(order) : order[i] = subdomain}
        i == CHOOSE x \in at : \A y \in at : x <= y
    IN [st EXCEPT !.tunnels[subdomain] = NoTunnelStats,
                  !.tunnelOrder =
                      IF at = {} THEN order
                      ELSE SubSeq(order, 1, i - 1) \o SubSeq(order, i + 1, Len(order))]

\* a log that only grows
RecordRequest_NoRing(st, subdomain, status) ==
    LET entry == [ID |-> st.nextID + 1, Subdomain |-> subdomain, Status |-> status]
    IN [st EXCEPT !.nextID = @ + 1, !.logs = Append(@, entry)]

\* Store.RecordRequest: the next ID, the entry appended to the log (the
\* oldest entry dropped once the log holds maxLogs), the counters of the
\* subdomain's tunnel when the map has it
RecordRequest(st, subdomain, status) ==
    LET entry == [ID |-> st.nextID + 1, Subdomain |-> subdomain, Status |-> status]
        logs == IF Len(st.logs) >= maxLogs
                THEN Append(Tail(st.logs), entry)
                ELSE Append(st.logs, entry)
        counted == subdomain \in Subdomains /\ st.tunnels[subdomain].in
    IN [st EXCEPT !.nextID = @ + 1,
                  !.logs = logs,
                  !.tunnels =
                      IF counted
                      THEN [@ EXCEPT ![subdomain] =
                               [@ EXCEPT !.TotalRequests = @ + 1,
                                         !.ErrorCount =
                                             IF status >= StatusBadRequest
                                             THEN @ + 1 ELSE @]]
                      ELSE @]

StatsUnchanged ==
    UNCHANGED <<sock, tunnels, visitorSockets, pendingRequests, reqs, atAgent,
                nextSock, nextId, frames, last, log, relay, tun, agent, front,
                hdr, pipe>>

\* connHook.OnConnect
StoreRecordConnect(s) ==
    /\ Len(stats.tunnelOrder) < MaxOrder
    /\ stats' = RecordConnect(stats, s)
    /\ StatsUnchanged

\* connHook.OnDisconnect
StoreRecordDisconnect(s) ==
    /\ stats' = RecordDisconnect(stats, s)
    /\ StatsUnchanged

\* reqHook.AfterProxy: subdomain is "" when BeforeProxy stored none
StoreRecordRequest(s, status) ==
    /\ stats.nextID < MaxRecords
    /\ stats' = RecordRequest(stats, s, status)
    /\ StatsUnchanged

StatsNext ==
    \/ \E s \in Subdomains : StoreRecordConnect(s)
    \/ \E s \in Subdomains : StoreRecordDisconnect(s)
    \/ \E s \in Subdomains \cup {""}, status \in {StatusOK, StatusBadGateway} :
           StoreRecordRequest(s, status)

SpecStats == Init /\ [][StatsNext]_vars

\* ---------------------------------------------------------------- claims
InLog(ev) == \E i \in 1..Len(log) : log[i] = ev

\* C1: a subdomain's table entry is an accepted agent socket attached to that
\* subdomain, no socket is registered under two subdomains, and an agent
\* upgrade that registers its socket for an occupied subdomain has first
\* closed the old socket with code 1000, then deleted it from the table, and
\* only then accepted and inserted the new one.
C1_OneAgentPerSubdomain ==
    /\ \A s \in Subdomains :
           tunnels[s] # 0 =>
               /\ sock[tunnels[s]].kind = "agent"
               /\ sock[tunnels[s]].sub = s
               /\ \A s2 \in Subdomains : tunnels[s2] = tunnels[s] => s2 = s
    /\ (last.op = "tunnelUpgrade" /\ last.old # 0 /\ InLog(<<"accept", last.k, "agent">>)) =>
           /\ log = << <<"close", last.old, CodeReplaced>>,
                       <<"tunnels.delete", last.s, 0>>,
                       <<"accept", last.k, "agent">>,
                       <<"tunnels.set", last.s, last.k>> >>
           /\ sock[last.old].st # "open"
           /\ tunnels[last.s] = last.k
           /\ \A s \in Subdomains : tunnels[s] # last.old

C1_Witness ==
    /\ last.op = "tunnelUpgrade" /\ last.old # 0
    /\ tunnels[last.s] = last.k
    /\ sock[last.old].st = "closing"

\* C2: an OPEN agent socket that is the newest accepted for its subdomain is
\* the one the agent table maps the subdomain to, so no visitor request to
\* that subdomain is answered "Tunnel not connected".
C2_ReplacementStaysRegistered ==
    \A k \in SockIds :
        (/\ sock[k].st = "open" /\ sock[k].kind = "agent"
         /\ \A k2 \in SockIds : k2 > k => sock[k2].st = "none")
        => /\ tunnels[sock[k].sub] = k
           /\ ~(last.op = "notConnected" /\ last.s = sock[k].sub)

C4_ResponseCorrelation ==
    /\ \A r \in Ids : reqs[r].from # 0 => reqs[r].from = r
    /\ last.op = "httpResponse" =>
           \A i \in 1..Len(log) : log[i][1] = "resolve" => log[i][2] = last.id

C4_Witness ==
    /\ last.op = "httpResponse" /\ last.id = 2
    /\ reqs[2].from = 2
    /\ reqs[1].st = "pending"

\* C5: every accepted visitor HTTP request eventually settles and its pending
\* entry is eventually gone.
C5_EveryRequestResolves ==
    \A r \in Ids :
        (reqs[r].st \in {"reading", "pending"})
            ~> (reqs[r].st = "done" /\ pendingRequests[r] = NoPending)

\* C6: the close or error hook of an agent socket of subdomain s settles
\* every request that was pending for s with 502 and leaves no pending entry
\* whose subdomain is s.
C6_AgentGoneRejectsAll ==
    [][last'.op \in {"agentClose", "agentError"} =>
          \A r \in Ids :
              /\ pendingRequests[r].subdomain = last'.s =>
                     /\ reqs'[r].st = "done"
                     /\ reqs'[r].status = StatusBadGateway
                     /\ reqs'[r].nres = 1
              /\ pendingRequests'[r].subdomain # last'.s]_vars

C6_Witness ==
    /\ last.op \in {"agentClose", "agentError"}
    /\ Cardinality({r \in Ids : InLog(<<"resolve", r, StatusBadGateway>>)}) >= 2
    /\ \A r \in Ids : pendingRequests[r] = NoPending

\* C7: after the close hook or the error hook of an agent socket of subdomain
\* s, s is not in the agent table and no visitor session of s is left in the
\* visitor table; each was closed with code 1001.
C7_AgentGoneClosesVisitors ==
    last.op \in {"agentClose", "agentError"} =>
        /\ tunnels[last.s] = 0
        /\ \A id \in Ids :
               visitorSockets[id] # 0 => sock[visitorSockets[id]].sub # last.s
        /\ \A v \in SockIds :
               (sock[v].kind = "visitor" /\ sock[v].sub = last.s) =>
                   sock[v].st # "open"

\* C8: a cold start leaves both tables as they were, and every OPEN socket is
\* in its table under the key of its attachment.
C8_RestoreEqualsBefore ==
    [][last'.op = "coldStart" =>
          /\ tunnels' = tunnels
          /\ visitorSockets' = visitorSockets
          /\ \A k \in SockIds :
                 sock[k].st = "open" =>
                     IF sock[k].kind = "agent"
                     THEN tunnels'[sock[k].sub] = k
                     ELSE visitorSockets'[sock[k].sid] = k]_vars

\* C9: the timer of a request settles it with 504 and removes its entry; an
\* http-response for an id that has no pending entry changes no table, no
\* request and no socket, and sends nothing.
C9_TimeoutThenDrop ==
    [][/\ last'.op = "timeout" =>
              /\ reqs'[last'.id].st = "done"
              /\ reqs'[last'.id].status = StatusTimeout
              /\ pendingRequests'[last'.id] = NoPending
       /\ (last'.op = "httpResponse" /\ pendingRequests[last'.id] = NoPending) =>
              /\ UNCHANGED <<tunnels, visitorSockets, pendingRequests, reqs, sock>>
              /\ log' = <<>>]_vars

C9_Witness ==
    /\ last.op = "httpResponse"
    /\ reqs[last.id].status = StatusTimeout
    /\ pendingRequests[last.id] = NoPending
    /\ \E k \in SockIds : sock[k].st = "open" /\ sock[k].kind = "agent"

\* the SpecRelay session is a state the edge reaches
RelayInitReached ==
    /\ sock[1] = [st |-> "open", kind |-> "agent", sub |-> RelaySub, sid |-> 0]
    /\ sock[2] = [st |-> "open", kind |-> "visitor", sub |-> RelaySub, sid |-> 1]
    /\ tunnels[RelaySub] = 1 /\ visitorSockets[1] = 2
    /\ atAgent[1] = {[type |-> "ws-open", id |-> 1]}
    /\ nextSock = 3 /\ nextId = 2 /\ frames = 0
    /\ last = [op |-> "visitorUpgrade", s |-> RelaySub, k |-> 2, id |-> 1, old |-> 0]
    /\ log = << <<"send", 1, "ws-open", 1, 0>>, <<"accept", 2, "visitor">>,
                <<"visitors.set", 1, 2>> >>

\* C10: for one visitor session the frames are written on the local WebSocket
\* in the order the visitor sent them, and the visitor receives the frames of
\* the (echoing) local server in the order it sent them: the visitor's frames
\* are numbered 1, 2, ... as it sends them, and both sequences are ascending.
C10_FramesInOrder ==
    /\ \A i, j \in 1..Len(relay.local) : i < j => relay.local[i] < relay.local[j]
    /\ \A i, j \in 1..Len(relay.visitor) : i < j => relay.visitor[i] < relay.visitor[j]

\* the direction local server -> visitor alone
RelayReturnInOrder ==
    \A i \in 1..Len(relay.visitor) : relay.visitor[i] = relay.local[i]

\* every ws.send of the handler that just ran was made on a socket that was
\* OPEN when the handler sent on it
SendsOnOpenSockets ==
    [][\A i \in 1..Len(log') :
          log'[i][1] = "send" =>
              /\ sock[log'[i][2]].st = "open"
              /\ \A j \in 1..(i - 1) :
                     ~(log'[j][1] = "close" /\ log'[j][2] = log'[i][2])]_vars

\* C11: no handler run ends with an error of a socket operation that was not
\* caught inside the handler: the agent upgrade that replaces a registered
\* socket does not throw out of fetch when that socket is no longer OPEN.
C11_NoSocketErrorEscapes ==
    ~(last.op = "tunnelUpgrade" /\ \E i \in 1..Len(log) : log[i][1] = "throw")

\* C12: after the close hook or the error hook of a visitor socket the session
\* is not in the visitor table and, when the agent socket of its subdomain is
\* OPEN, the hook has sent a ws-close carrying the session id on it.
C12_VisitorGoneNotifiesAgent ==
    last.op \in {"visitorClose", "visitorError"} =>
        /\ visitorSockets[last.id] = 0
        /\ (tunnels[last.s] # 0 /\ sock[tunnels[last.s]].st = "open") =>
               \E i \in 1..Len(log) :
                   /\ log[i][1] = "send" /\ log[i][2] = tunnels[last.s]
                   /\ log[i][3] = "ws-close" /\ log[i][4] = last.id

C15_ReturnsWhenDone ==
    /\ [](\A s \in Tunnels : tun.t[s].pc = "returned" => tun.done)
    /\ [](tun.main = "exited" => \A s \in Tunnels : tun.t[s].pc = "returned")
    /\ (tun.done ~> (tun.main = "exited" /\ \A s \in Tunnels : tun.t[s].pc = "returned"))

\* done arrives while tunnel 1 serves and tunnel 2 sleeps in its backoff;
\* the watcher of tunnel 1 has closed the socket
C15_Witness ==
    /\ tun.done
    /\ tun.t[1].pc = "serve" /\ tun.t[1].watcher = "exit" /\ tun.t[1].conn = "closed"
    /\ tun.t[2].pc = "backoff"

\* the step in which the Dial of tunnel s is made (it succeeds or fails)
DialStep(s) == tun.t[s].pc = "dial" /\ tun'.t[s].pc # "dial"

\* C16 as stated: a dial is made only after the backoff that follows a
\* failure and never once done is signalled; while done is not signalled a
\* tunnel in its backoff dials again; the loop ends only on done.
C16_NeverDialsAfterDone ==
    /\ [][\A s \in Tunnels : DialStep(s) => (tun.t[s].slept /\ ~tun.done)]_vars
    /\ \A s \in Tunnels :
           (tun.t[s].pc = "backoff" /\ ~tun.done) ~> (tun.t[s].pc = "dial" \/ tun.done)
    /\ [](\A s \in Tunnels : tun.t[s].pc = "returned" => tun.done)

\* C16: a dial is made only after the backoff that follows a failure, and
\* only by an iteration whose check at the top of the loop found done not
\* signalled; while done is not signalled a tunnel in its backoff dials
\* again; the loop ends only on done.
C16_DialsAfterBackoffAndCheck ==
    /\ [][\A s \in Tunnels : DialStep(s) => (tun.t[s].slept /\ ~tun.t[s].chk)]_vars
    /\ \A s \in Tunnels :
           (tun.t[s].pc = "backoff" /\ ~tun.done) ~> (tun.t[s].pc = "dial" \/ tun.done)
    /\ [](\A s \in Tunnels : tun.t[s].pc = "returned" => tun.done)

\* tunnel 1 has failed, slept and passed the check again, and done is
\* signalled before its Dial is made
C16_Witness ==
    /\ tun.t[1].pc = "dial" /\ tun.t[1].slept /\ ~tun.t[1].chk
    /\ tun.t[1].stale = 1
    /\ tun.done

\* C14: at no time are two activities inside a write on the agent socket,
\* and an activity inside a write that goes through writeJSON / writeText
\* holds the mutex.
C14_WritesExclusive ==
    Cardinality(agent.writing) <= 1

\* C17: the worker of an http-request makes at most one writeJSON call, and
\* exactly one by the time it ends; the response carries the id of the
\* request, and carries status 502 whenever decoding the body, building the
\* request, reaching the local server or reading its response failed.
C17_OneResponsePerRequest ==
    \A i \in AgentMsgs :
        agent.w[i].type = "http-request" =>
            /\ agent.w[i].emitted <= 1
            /\ agent.w[i].pc = "done" => agent.w[i].emitted = 1
            /\ agent.w[i].pc \in {"lock", "write", "done"} =>
                   /\ agent.w[i].resp.type = "http-response"
                   /\ agent.w[i].resp.id = i
                   /\ agent.w[i].failure # "none" =>
                          agent.w[i].resp.status = StatusBadGateway
            /\ Cardinality({k \in 1..Len(agent.wire) :
                   agent.wire[k] = [type |-> "http-response", id |-> i]}) <= 1

\* two http-requests answered, one of them after the local server could not
\* be reached
C17_Witness ==
    /\ \A i \in AgentMsgs : agent.w[i].type = "http-request" /\ agent.w[i].pc = "done"
    /\ agent.w[1].failure = "connect" /\ agent.w[2].failure = "none"
    /\ Len(agent.wire) >= 2

\* C18 (agent side): the worker of a message of unknown type makes no local
\* HTTP request and writes nothing on the agent socket.
C18_UnknownTypeIgnored ==
    \A i \in AgentMsgs :
        agent.w[i].type = "bogus" =>
            /\ ~agent.w[i].local
            /\ agent.w[i].emitted = 0

\* C19: a visitor request (HTTP or WebSocket upgrade) for a subdomain whose
\* agent socket is absent from the table or not OPEN is answered 502 "Tunnel
\* not connected": it changes no table, no socket and no request, creates no
\* pending-request and no visitor-table entry, and sends nothing.
C19_DownTunnelAnswered502 ==
    [][(/\ last'.op \in {"notConnected", "visitorUpgrade", "httpRequest"}
        /\ \/ tunnels[last'.s] = 0
           \/ sock[tunnels[last'.s]].st # "open")
       => /\ last'.op = "notConnected"
          /\ log' = <<>>
          /\ UNCHANGED <<sock, tunnels, visitorSockets, pendingRequests, reqs,
                         atAgent, nextSock, nextId>>]_vars

\* a visitor request was refused for a subdomain whose registered agent
\* socket is still in the table but no longer OPEN
C19_Witness ==
    /\ last.op = "notConnected"
    /\ tunnels[last.s] # 0
    /\ sock[tunnels[last.s]].st # "open"

\* C20: once a close path has removed a visitor session from the visitor
\* table, the visitor-close and visitor-error paths that run later for the
\* socket of that session neither delete from the table again nor send a
\* ws-close for the session to the agent.
C20_OneClosePath ==
    [][(/\ last'.op \in {"visitorClose", "visitorError"}
        /\ visitorSockets[last'.id] = 0)
       => \A i \in 1..Len(log') :
              /\ log'[i][1] # "visitors.delete"
              /\ ~(log'[i][1] = "send" /\ log'[i][3] = "ws-close")]_vars

\* C21: a visitor request to a tunnel whose config carries an auth value,
\* made with no Authorization header, a non-Basic one or other credentials,
\* is answered 401 and is not passed on to the tunnel actor.
C21_AuthShortCircuits ==
    \A v \in Visits :
        (/\ front.visits[v].pc = "done"
         /\ front.visits[v].config.auth # ""
         /\ front.visits[v].header # "basic-right")
        => /\ front.visits[v].status = StatusUnauthorized
           /\ ~front.visits[v].forwarded

\* C22: a visitor request that starts when every register call has
\* completed, and during which none starts, is checked against the config
\* the table holds for its subdomain.
C22_ChecksStoredConfig ==
    \A v \in Visits :
        (/\ front.visits[v].pc = "done"
         /\ front.visits[v].quiet
         /\ front.visits[v].stored # NoRow)
        => front.visits[v].config = front.visits[v].stored

\* C23: a (clientId, port) is bound to at most one subdomain, no subdomain
\* is bound to two pairs, and the successful register calls for a pair all
\* return the subdomain the table binds to it.
C23_RegisterIdempotent ==
    /\ \A x, y \in front.db :
           (x.client_id = y.client_id /\ x.port = y.port) => x.subdomain = y.subdomain
    /\ \A x, y \in front.db :
           x.subdomain = y.subdomain => (x.client_id = y.client_id /\ x.port = y.port)
    /\ \A r \in Regs :
           (front.regs[r].pc = "done" /\ front.regs[r].status = StatusOK) =>
               \E x \in front.db :
                   /\ x.client_id = ClientId /\ x.port = front.regs[r].port
                   /\ x.subdomain = front.regs[r].sub

\* two overlapping calls for the same pair have both ended, one of them
\* with the subdomain it inserted
C23_Witness ==
    /\ \A r \in Regs : front.regs[r].pc = "done" /\ front.regs[r].port = 1
    /\ front.regs[1].existing = {} /\ front.regs[2].existing = {}
    /\ \E r \in Regs : front.regs[r].inserted

\* C24: allocation generates at most 10 candidates, of length 4 for the
\* first four and one character longer on each later one; a call whose ten
\* candidates all collided answers 500 and has inserted no row.
C24_AllocationBudget ==
    \A r \in Regs :
        LET g == front.regs[r]
        IN /\ Len(g.tried) <= maxRetries
           /\ \A i \in 1..Len(g.tried) : g.tried[i] = IF i <= 4 THEN 4 ELSE i
           /\ g.retries = maxRetries =>
                  /\ g.pc = "done"
                  /\ g.status = StatusServerError
                  /\ ~g.inserted
                  /\ \A x \in front.db :
                         ~(x.client_id = ClientId /\ x.port = g.port /\ x.subdomain = g.cand)

C24_Witness ==
    \E r \in Regs :
        /\ front.regs[r].retries = maxRetries
        /\ Len(front.regs[r].tried) = maxRetries
        /\ front.regs[r].status = StatusServerError

\* C25: no subdomain returned by a register call contains a blocked word.
C25_NoBlockedSubdomain ==
    \A r \in Regs :
        (front.regs[r].pc = "done" /\ front.regs[r].status = StatusOK) =>
            ~isSubdomainBlocked(front.regs[r].sub)

\* C26: a GET /_tunnel without Upgrade: websocket (426) or without a
\* subdomain (400) touches no table and no socket, and any other one leaves
\* its socket accepted and registered under the subdomain it named.
C26_TunnelEndpoint ==
    /\ last.op \in {"upgradeRequired", "badRequest"} => log = <<>>
    /\ last.op = "tunnelUpgrade" =>
           /\ tunnels[last.s] = last.k
           /\ sock[last.k].st = "open"
           /\ sock[last.k].kind = "agent"
           /\ sock[last.k].sub = last.s

\* C27: while the worker of the first request is still in its local round
\* trip, a second request that has arrived on the open agent socket is read,
\* proxied and answered (its worker returns from writeJSON), unless the
\* socket is closed first.
C27_SlowRequestDoesNotBlock ==
    (/\ agent.w[1].pc = "handle"
     /\ agent.inQ # <<>>
     /\ Head(agent.inQ).id = 2)
    ~> (agent.w[2].pc = "done" \/ agent.conn = "closed")

\* the second request has been answered on the wire while the first is
\* still being proxied
C27_Witness ==
    /\ agent.w[1].pc = "handle"
    /\ agent.w[2].pc = "done"
    /\ \E k \in 1..Len(agent.wire) : agent.wire[k] = [type |-> "http-response", id |-> 2]

DistinctUpToCase(m) ==
    \A x, y \in m : LowerKey(x.key) = LowerKey(y.key) => x = y

CallsOf(kind) == {i \in 1..Len(pipe.trace) : pipe.trace[i][1] = kind}
\* hook g is registered before hook h
Earlier(g, h) == g[1] < h[1] \/ (g[1] = h[1] /\ g[2] < h[2])
\* the hooks of one kind called before position i, in the order of the calls
RECURSIVE HooksCalled(_, _)
HooksCalled(kind, i) ==
    IF i = 0
    THEN <<>>
    ELSE IF pipe.trace[i][1] = kind
         THEN Append(HooksCalled(kind, i - 1), pipe.trace[i][2])
         ELSE HooksCalled(kind, i - 1)

\* C29: in one dispatch every onRequest call comes before every
\* before-proxy call, the before-proxy calls come before the local round
\* trip and the after-proxy calls after it; each plug-in's hooks are called
\* once, the before-proxy and the after-proxy hooks both in registration
\* order, each receiving what the hooks before it produced.
C29_HookOrder ==
    pipe.pc = "done" =>
        /\ \A i \in CallsOf("onRequest"), j \in CallsOf("before") : i < j
        /\ \A i \in CallsOf("before"), j \in CallsOf("proxy") : i < j
        /\ \A i \in CallsOf("proxy"), j \in CallsOf("after") : i < j
        /\ Cardinality(CallsOf("proxy")) = 1
        /\ \A kind \in {"onRequest", "before", "after"} :
               /\ \A i, j \in CallsOf(kind) :
                      i < j => Earlier(pipe.trace[i][2], pipe.trace[j][2])
               /\ \A p \in 1..Len(pipe.plugins) :
                      \A n \in 1..MaxHooks :
                          (\E i \in CallsOf(kind) : pipe.trace[i][2] = <<p, n>>)
                          <=> /\ pipe.plugins[p].enabled
                              /\ n <= IF kind = "onRequest" THEN pipe.plugins[p].conn
                                      ELSE pipe.plugins[p].req
        /\ \A kind \in {"before", "after"} :
               \A i \in CallsOf(kind) : pipe.trace[i][3] = HooksCalled(kind, i - 1)

\* a dispatch through three enabled plug-ins, two of them with request hooks
\* and two with connection hooks
C29_Witness ==
    /\ pipe.pc = "done"
    /\ Cardinality(CallsOf("before")) >= 3
    /\ Cardinality(CallsOf("after")) >= 3
    /\ Cardinality(CallsOf("onRequest")) >= 2
    /\ \E p \in 1..Len(pipe.plugins) : ~pipe.plugins[p].enabled

\* the ws-open of the session, as the reader handed it to a worker
OpenEnvelope == [type |-> "ws-open", id |-> 1, n |-> 0]

\* this step is the worker running HandleOpen with a dial that fails
DialFails ==
    /\ OpenEnvelope \in relay.workers
    /\ OpenEnvelope \notin relay'.workers
    /\ ~relay'.opened

\* this step is the edge handling a ws-close 1011 of the relay while the
\* session is in the visitor table
EdgeGetsErrorClose ==
    /\ relay.agentQ # <<>>
    /\ relay'.agentQ = Tail(relay.agentQ)
    /\ Head(relay.agentQ) = [type |-> "ws-close", n |-> CodeError]
    /\ visitorSockets[1] # 0

\* HandleOpen has run for the session and its dial failed
DialFailed ==
    /\ ~relay.opened
    /\ relay.closeSent >= 1

\* C30: the worker whose dial fails writes one ws-close with code 1011 (it
\* reaches the edge when the agent socket is up), stores no session and starts
\* no read loop, and no second ws-close follows for the session; when the edge
\* handles that ws-close the visitor socket is closed with 1011 and the session
\* is out of the visitor table.
C30_DialFailureClosesSession ==
    /\ [](DialFailed => /\ relay.closeSent = 1
                        /\ relay.sessions = {}
                        /\ relay.loop = "none"
                        /\ relay.conn = "none")
    /\ [][/\ DialFails =>
                /\ relay'.closeSent = relay.closeSent + 1
                /\ relay'.sessions = {}
                /\ relay'.loop = "none"
                /\ relay'.conn = "none"
                /\ relay'.agentQ =
                       IF relay.tunnelUp
                       THEN Append(relay.agentQ, [type |-> "ws-close", n |-> CodeError])
                       ELSE relay.agentQ
          /\ EdgeGetsErrorClose =>
                /\ visitorSockets'[1] = 0
                /\ sock'[2].st # "open"
                /\ sock[2].st = "open" =>
                       log' = << <<"close", 2, CodeError>>, <<"visitors.delete", 1, 0>> >>
         ]_vars

\* the edge has closed the visitor socket on the relay's ws-close 1011
C30_Witness ==
    /\ DialFailed
    /\ last.op = "wsClose"
    /\ log = << <<"close", 2, CodeError>>, <<"visitors.delete", 1, 0>> >>
    /\ sock[2].st = "closing"

\* the ws-frame and ws-close envelopes a worker can hold for the session
FrameEnvelopes == {m \in RelayEnvelopes : m.type = "ws-frame"}
CloseEnvelopes == {m \in RelayEnvelopes : m.type = "ws-close"}

\* what HandleFrame and HandleClose do to the relay in its present state:
\* a HandleFrame that finds no session changes nothing, a HandleClose that
\* finds the session takes it out of the table and closes it, and a second
\* HandleClose changes nothing more
RelayLookups ==
    /\ \A m \in FrameEnvelopes :
           1 \notin relay.sessions => HandleFrame(relay, m) = relay
    /\ \A c \in CloseEnvelopes :
           /\ 1 \in relay.sessions =>
                  /\ 1 \notin HandleClose(relay, c).sessions
                  /\ HandleClose(relay, c).conn = "closed"
           /\ HandleClose(HandleClose(relay, c), c) = HandleClose(relay, c)
           /\ \A m \in FrameEnvelopes :
                  HandleFrame(HandleClose(relay, c), m) = HandleClose(relay, c)

StaleAgentEvent(k) ==
    /\ last'.op \in {"agentClose", "agentError"}
    /\ last'.k = k
    /\ tunnels[sock[k].sub] \notin {0, k}

\* C32: the close or error event of a replaced agent socket rejects no
\* pending request that was sent on the replacement and closes no visitor
\* session that was opened through it.
C32_StaleEventSparesReplacement ==
    [][\A k \in SockIds :
          StaleAgentEvent(k) =>
              LET s == sock[k].sub
                  repl == tunnels[s]
              IN /\ \A r \in Ids :
                        (pendingRequests[r] # NoPending /\ reqs[r].ws = repl) =>
                            /\ pendingRequests'[r] = pendingRequests[r]
                            /\ reqs'[r] = reqs[r]
                 /\ \A id \in Ids :
                        (visitorSockets[id] > repl /\ sock[visitorSockets[id]].sub = s) =>
                            /\ visitorSockets'[id] = visitorSockets[id]
                            /\ sock'[visitorSockets[id]] = sock[visitorSockets[id]]
      ]_vars

\* C33: the close or error event of an agent socket of subdomain s leaves the
\* agent entries of the other subdomains, the pending requests of other
\* subdomains (still pending, unresolved) and the visitor sessions of other
\* subdomains (in the table, their sockets as they were) unchanged, and
\* touches no agent socket of another subdomain.
C33_OnlyOwnSubdomain ==
    [][\A k \in SockIds :
          (last'.op \in {"agentClose", "agentError"} /\ last'.k = k) =>
              LET s == sock[k].sub
              IN /\ \A t \in Subdomains \ {s} : tunnels'[t] = tunnels[t]
                 /\ \A r \in Ids :
                        (pendingRequests[r] # NoPending
                            /\ pendingRequests[r].subdomain # s) =>
                            /\ pendingRequests'[r] = pendingRequests[r]
                            /\ reqs'[r] = reqs[r]
                 /\ \A id \in Ids :
                        (visitorSockets[id] # 0 /\ sock[visitorSockets[id]].sub # s) =>
                            /\ visitorSockets'[id] = visitorSockets[id]
                            /\ sock'[visitorSockets[id]] = sock[visitorSockets[id]]
                 /\ \A k2 \in SockIds :
                        (sock[k2].kind = "agent" /\ sock[k2].sub # s) =>
                            sock'[k2] = sock[k2]
      ]_vars

\* an agent socket has closed or failed while another subdomain had a
\* request pending, a visitor session open and its agent registered: all
\* are as they were
C33_Witness ==
    /\ last.op \in {"agentClose", "agentError"}
    /\ \E r \in Ids :
           /\ pendingRequests[r] # NoPending
           /\ pendingRequests[r].subdomain # last.s
           /\ reqs[r].st = "pending"
           /\ tunnels[pendingRequests[r].subdomain] # 0
           /\ sock[tunnels[pendingRequests[r].subdomain]].st = "open"
    /\ \E id \in Ids :
           /\ visitorSockets[id] # 0
           /\ sock[visitorSockets[id]].sub # last.s
           /\ sock[visitorSockets[id]].st = "open"

\* C34: when the dial succeeded, the session is open on both sides, the
\* agent socket is up and every envelope the edge sent has been handled by
\* its worker, every frame the visitor sent has been written on the local
\* WebSocket.
C34_NoFrameLost ==
    (/\ relay.opened
     /\ relay.tunnelUp
     /\ ~relay.vclosed
     /\ relay.conn = "open"
     /\ relay.toEdge = <<>> /\ relay.tunnelQ = <<>> /\ relay.workers = {})
    => Len(relay.local) = relay.vsent

\* one side has started to close the session: the visitor, the local
\* server, or the agent after it removed the session
CloseStarted == relay.vclosed \/ relay.conn \in {"peerClosed", "closed"}

\* nothing of the session is in flight and no activity of it can take a
\* step: every message was handled and the readLoop waits in ReadMessage
RelayQuiet ==
    /\ relay.tunnelUp
    /\ relay.toEdge = <<>> /\ relay.tunnelQ = <<>> /\ relay.workers = {}
    /\ relay.agentQ = <<>> /\ relay.localQ = <<>> /\ relay.hand = 0
    /\ relay.loop \in {"none", "done"} \/ (relay.loop = "read" /\ relay.conn = "open")

\* C35: at most one ws-close of the session travels in each direction, and
\* once a side has closed and everything in flight has been handled the
\* session is in neither the edge's visitor table nor the agent's session
\* table.
C35_CloseHandshakeEnds ==
    /\ relay.closeSent <= 1
    /\ Cardinality({m \in relay.workers : m.type = "ws-close"})
         + Cardinality({i \in 1..Len(relay.tunnelQ) : relay.tunnelQ[i].type = "ws-close"}) <= 1
    /\ (CloseStarted /\ RelayQuiet) =>
           /\ visitorSockets[1] = 0
           /\ relay.sessions = {}

\* C36: once the agent connection has ended, a session of the relay's table
\* is eventually out of the table and its local WebSocket closed, whether
\* or not the local server does anything.
C36_SessionsEndWithConnection ==
    (~relay.tunnelUp /\ 1 \in relay.sessions)
        ~> (relay.sessions = {} /\ relay.conn # "open")

\* C37: a shutdown watcher whose connection's serve loop has exited
\* eventually ends (at the latest with the process), whether or not done is
\* ever signalled.
C37_HelpersEndWithConnection ==
    \A s \in Tunnels :
        (tun.t[s].stale > 0) ~> (tun.t[s].stale = 0 \/ tun.main = "exited")

\* the call names a port twice that the client had not registered when the
\* call read its rows
NamesNewPortTwice(g) ==
    \E i, j \in 1..Len(g.ports) :
        /\ i < j
        /\ g.ports[i] = g.ports[j]
        /\ \A e \in g.existing : e.port # g.ports[i]

\* C38: a register call that is the only one so far, names a new port twice
\* and has not run out of candidates has ended with 200, with one row for
\* every port it names and that row's subdomain in its answer.
C38_RepeatedPortRegisters ==
    LET g == front.regs[1]
    IN (/\ g.pc = "done"
        /\ front.regs[2].pc = "none"
        /\ NamesNewPortTwice(g)
        /\ g.retries < maxRetries)
       => /\ g.status = StatusOK
          /\ \A i \in 1..Len(g.ports) :
                 \E x \in front.db :
                     /\ x.client_id = ClientId /\ x.port = g.ports[i]
                     /\ [port |-> x.port, subdomain |-> x.subdomain] \in g.results

\* C39: a cold start while the agent socket registered for a subdomain is
\* OPEN and an agent socket of the same subdomain that the edge has closed
\* has not finished its close handshake: the rebuilt table maps the subdomain
\* to the open replacement, whichever of the two is enumerated last.
ReplacedStillClosing(s) ==
    /\ tunnels[s] # 0
    /\ sock[tunnels[s]].st = "open"
    /\ \E j \in SockIds :
           /\ j # tunnels[s]
           /\ sock[j].kind = "agent"
           /\ sock[j].sub = s
           /\ sock[j].st = "closing"

C39_RestoreKeepsReplacement ==
    [][last'.op = "coldStart" =>
          \A s \in Subdomains :
              ReplacedStillClosing(s) => tunnels'[s] = tunnels[s]]_vars

\* C40: after any sequence of RecordConnect, RecordDisconnect and
\* RecordRequest calls the log holds at most maxLogs entries, which are the
\* most recently recorded ones in strictly increasing ID order, and
\* tunnelOrder lists exactly the subdomains of the tunnels map, each once.
LogsConsistent ==
    LET logs == stats.logs
    IN /\ Len(logs) <= maxLogs
       /\ Len(logs) = IF stats.nextID < maxLogs THEN stats.nextID ELSE maxLogs
       /\ \A i \in 1..Len(logs) : logs[i].ID = stats.nextID - Len(logs) + i

OrderConsistent ==
    LET order == stats.tunnelOrder
    IN /\ \A s \in Subdomains :
              stats.tunnels[s].in <=> \E i \in 1..Len(order) : order[i] = s
       /\ \A i, j \in 1..Len(order) : order[i] = order[j] => i = j

C40_StoreConsistentAnyCalls == LogsConsistent /\ OrderConsistent

\* C40, with the calls that keep it: the log part after any sequence of
\* calls; the tunnelOrder part as long as no RecordConnect call has named a
\* subdomain that was in the tunnels map.
C40_StoreConsistent ==
    /\ LogsConsistent
    /\ ~stats.reconnect => OrderConsistent

C40_Witness ==
    /\ ~stats.reconnect
    /\ stats.nextID > maxLogs
    /\ stats.tunnelOrder = <<"b", "a">>
    /\ stats.tunnels["a"].TotalRequests >= 1
====
